---------------------------- MODULE Spec2Model ----------------------------
(***************************************************************************)
(* Lineup enumeration and selection of john-e-moore/dfs-optimizer.         *)
(*                                                                         *)
(* Two enumerators are modelled, each driving the CBC oracle through PuLP: *)
(*   classic   dfs_optimizer/optimizer.py  generate_lineups                *)
(*   showdown  src/showdown.py             generate_lineups_showdown       *)
(* followed by the presentation sort of lineups_to_dataframe.              *)
(* Two further parts have specifications of their own:                    *)
(*   SpecDiversify  src/feature_diversify  main and the farthest-first     *)
(*                  selector with per-source quotas                        *)
(*   SpecRules      src/constraints/showdown_dsl.py  the rule parser, and  *)
(*                  the evaluation of parsed rules on a showdown lineup    *)
(*                                                                         *)
(* Conventions.  Pool positions are 1-based here (0-based in Python).      *)
(* Projections are held in half points (22.0 -> 44) and ownership in       *)
(* tenths (0.2 -> 2), so the float sums and products of the code are exact *)
(* integer sums and products; a product of six ownerships is in units of   *)
(* 1e-6, which is also the epsilon of the showdown log transform.  An      *)
(* Optional[...] value is a sequence of length <= 1: <<>> is None and      *)
(* <<v>> is the value v.  A dict is a function on its key set.  Team and   *)
(* position strings of both pools are already upper case.                  *)
(***************************************************************************)
EXTENDS Integers, Sequences, FiniteSets, TLC

\* the enumerators
VARIABLES mode, params, max_lineups, rules, pc, target, lineups,
          previous_solutions, cuts, outcomes, result, rows

\* the diversification entry point and its selector
VARIABLES candidates, quotas_by_source, allow_shortfall, direct, seed, dpc,
          pool, best_idx, selected, remaining_by_source, remaining_indices,
          selection, written

\* the rule DSL
VARIABLES raw_rules, lineup, rpc, parsed, violated

enumvars == <<mode, params, max_lineups, rules, pc, target, lineups,
              previous_solutions, cuts, outcomes, result, rows>>

divvars == <<candidates, quotas_by_source, allow_shortfall, direct, seed, dpc,
             pool, best_idx, selected, remaining_by_source, remaining_indices,
             selection, written>>

dslvars == <<raw_rules, lineup, rpc, parsed, violated>>

vars == <<enumvars, divvars, dslvars>>

(***************************************************************************)
(* Bounds of the model.                                                    *)
(***************************************************************************)
MaxLineups == 3

(***************************************************************************)
(* Program constants.                                                      *)
(***************************************************************************)
\* mutant: a cap other than DraftKings' 50000
SALARY_CAP_Raised == 50000 + 1000

SALARY_CAP == 50000

ROSTER_SIZE == 9

SHOWDOWN_ROSTER_SIZE == 6

LpStatusOptimal == 1

LpStatusNotSolved == 0

LpStatusInfeasible == -1

None == <<>>

Some(v) == <<v>>

IsNone(o) == o = <<>>

Val(o) == o[1]

(***************************************************************************)
(* The classic pool: 2 QB, 3 RB, 3 WR, 2 TE, 2 DST over the games A-B and  *)
(* C-D.  DST1 (team B) faces QB1 (team A); DST2's team C has no RB.        *)
(***************************************************************************)
Player(n, t, o, pos, sal, proj, own) ==
    [name |-> n, team |-> t, opponent |-> o, position |-> pos,
     salary |-> sal, projection |-> proj, ownership |-> own]

players ==
    << Player("QB1",  "A", "B", "QB",  7500, 44, 2),
       Player("QB2",  "B", "A", "QB",  6000, 42, 1),
       Player("RB1",  "A", "B", "RB",  8000, 36, 2),
       Player("RB2",  "B", "A", "RB",  6200, 34, 2),
       Player("RB3",  "D", "C", "RB",  5800, 30, 1),
       Player("WR1",  "A", "B", "WR",  6000, 32, 2),
       Player("WR2",  "A", "B", "WR",  5400, 31, 2),
       Player("WR3",  "B", "A", "WR",  5200, 29, 1),
       Player("TE1",  "B", "A", "TE",  3800, 24, 1),
       Player("TE2",  "C", "D", "TE",  3200, 23, 1),
       Player("DST1", "B", "A", "DST", 2600, 16, 1),
       Player("DST2", "C", "D", "DST", 2400, 15, 1) >>

(***************************************************************************)
(* The showdown pool: one game A-B, CPT and FLEX variants sharing a name.  *)
(***************************************************************************)
ShowdownEntry(n, t, o, pos, r, sal, proj, own) ==
    [name |-> n, team |-> t, opponent |-> o, position |-> pos, role |-> r,
     salary |-> sal, projection |-> proj, ownership |-> own]

entries ==
    << ShowdownEntry("S1", "A", "B", "QB", "CPT",  15500, 60, 5),
       ShowdownEntry("S2", "B", "A", "WR", "CPT",  12000, 48, 4),
       ShowdownEntry("S1", "A", "B", "QB", "FLEX", 10000, 40, 5),
       ShowdownEntry("S2", "B", "A", "WR", "FLEX",  8000, 32, 4),
       ShowdownEntry("S3", "A", "B", "RB", "FLEX",  9000, 30, 3),
       ShowdownEntry("S4", "B", "A", "RB", "FLEX",  7000, 28, 3),
       ShowdownEntry("S5", "A", "B", "WR", "FLEX",  6000, 22, 2),
       ShowdownEntry("S6", "B", "A", "TE", "FLEX",  5000, 20, 2),
       ShowdownEntry("S7", "A", "B", "K",  "FLEX",  4000, 18, 1) >>

Pool(m) == IF m = "classic" THEN players ELSE entries

index(m) == 1..Len(Pool(m))

RECURSIVE SumOver(_, _)
SumOver(f, S) ==
    IF S = {} THEN 0
    ELSE LET i == CHOOSE j \in S : TRUE
         IN  f[i] + SumOver(f, S \ {i})

RECURSIVE ProductOver(_, _)
ProductOver(f, S) ==
    IF S = {} THEN 1
    ELSE LET i == CHOOSE j \in S : TRUE
         IN  f[i] * ProductOver(f, S \ {i})

Salary(m) == [i \in index(m) |-> Pool(m)[i].salary]

Projection(m) == [i \in index(m) |-> Pool(m)[i].projection]

Ownership(m) == [i \in index(m) |-> Pool(m)[i].ownership]

TotalSalary(m, S) == SumOver(Salary(m), S)

TotalProjection(m, S) == SumOver(Projection(m), S)

SumOwnership(m, S) == SumOver(Ownership(m), S)

(***************************************************************************)
(* Parameters (dfs_optimizer/models.py).  The showdown enumerator reads    *)
(* the same object through getattr and knows four more optional bounds.    *)
(***************************************************************************)
EmptyDict == [t \in {} |-> 0]

Dict1(k, v) == [t \in {k} |-> v]

Parameters ==
    [lineup_count |-> 2, min_salary |-> 45000, allow_qb_vs_dst |-> FALSE,
     stack |-> 1, game_stack |-> 0,
     excluded_players |-> {}, included_players |-> {},
     excluded_teams |-> {}, min_players_by_team |-> EmptyDict,
     rb_dst_stack |-> FALSE,
     min_sum_projection |-> None, max_sum_projection |-> None,
     min_player_projection |-> None,
     min_sum_ownership |-> None, max_sum_ownership |-> None,
     min_product_ownership |-> None, max_product_ownership |-> None,
     min_weighted_ownership |-> None, max_weighted_ownership |-> None,
     solver_threads |-> None, solver_time_limit_s |-> None]

validate(p) ==
    /\ p.lineup_count > 0
    /\ 0 <= p.min_salary /\ p.min_salary <= 50000
    /\ p.stack >= 0
    /\ p.game_stack >= 0
    /\ \A k \in DOMAIN p.min_players_by_team :
           k # "" /\ p.min_players_by_team[k] >= 0
    /\ (~IsNone(p.min_sum_ownership) /\ ~IsNone(p.max_sum_ownership))
           => Val(p.min_sum_ownership) <= Val(p.max_sum_ownership)
    /\ (~IsNone(p.min_product_ownership) /\ ~IsNone(p.max_product_ownership))
           => Val(p.min_product_ownership) <= Val(p.max_product_ownership)
    /\ ~IsNone(p.solver_threads) => Val(p.solver_threads) > 0
    /\ ~IsNone(p.solver_time_limit_s) => Val(p.solver_time_limit_s) > 0

game_key(team, opponent) == {team, opponent}

(***************************************************************************)
(* Index sets built before the classic model (optimizer.py 140-171).       *)
(* dict.get(key, []) of the code is the empty set of a set-builder here.   *)
(***************************************************************************)
pos_idxs(pos) == {i \in index("classic") : players[i].position = pos}

team_to_qb_idxs(t) ==
    {i \in index("classic") : players[i].position = "QB" /\ players[i].team = t}

team_to_wrte_idxs(t) ==
    {i \in index("classic") :
        players[i].position \in {"WR", "TE"} /\ players[i].team = t}

team_to_rb_idxs(t) ==
    {i \in index("classic") : players[i].position = "RB" /\ players[i].team = t}

team_to_all_idxs(t) == {i \in index("classic") : players[i].team = t}

dst_opp_to_idxs(t) ==
    {i \in index("classic") :
        players[i].position = "DST" /\ players[i].opponent = t}

game_to_idxs(g) ==
    {i \in index("classic") :
        players[i].position # "DST"
        /\ game_key(players[i].team, players[i].opponent) = g}

name_to_idxs(m, n) == {i \in index(m) : Pool(m)[i].name = n}

QbTeams == {players[i].team : i \in pos_idxs("QB")}

AllTeams == {players[i].team : i \in index("classic")}

Games ==
    {game_key(players[i].team, players[i].opponent) :
        i \in {j \in index("classic") : players[j].position # "DST"}}

Count(S, T) == Cardinality(S \cap T)

(***************************************************************************)
(* The classic MILP (optimizer.py 192-278): S is the set of pool positions *)
(* with x[i] = 1.                                                          *)
(***************************************************************************)
RosterConstraints(S) ==
    /\ Cardinality(S) = ROSTER_SIZE
    /\ Count(S, pos_idxs("QB")) = 1
    /\ Count(S, pos_idxs("DST")) = 1
    /\ Count(S, pos_idxs("RB")) >= 2
    /\ Count(S, pos_idxs("WR")) >= 3
    /\ Count(S, pos_idxs("TE")) >= 1

SalaryConstraints(m, S, p) ==
    /\ TotalSalary(m, S) <= SALARY_CAP
    /\ TotalSalary(m, S) >= p.min_salary

ExcludedPlayers(m, S, p) ==
    \A n \in p.excluded_players : \A i \in name_to_idxs(m, n) : i \notin S

ExcludedTeams(m, S, p) ==
    \A t \in p.excluded_teams :
        \A i \in {j \in index(m) : Pool(m)[j].team = t} : i \notin S

IncludedPlayers(S, p) ==
    \A n \in p.included_players : \A i \in name_to_idxs("classic", n) : i \in S

\* mutant: the row lacks the factor params.stack
StackConstraint_NoFactor(S, p) ==
    (p.stack > 0) =>
        \A t \in QbTeams :
            Count(S, team_to_wrte_idxs(t)) >= Count(S, team_to_qb_idxs(t))

StackConstraint(S, p) ==
    (p.stack > 0) =>
        \A t \in QbTeams :
            Count(S, team_to_wrte_idxs(t)) >= p.stack * Count(S, team_to_qb_idxs(t))

\* one auxiliary binary z[g] per game bucket
\* mutant: no game indicator has to be switched on
GameStackConstraint_NoneRequired(S, p) ==
    (p.game_stack > 0) =>
        \E z \in [Games -> {0, 1}] :
            /\ \A g \in Games : Count(S, game_to_idxs(g)) >= p.game_stack * z[g]
            /\ SumOver(z, Games) >= 0

GameStackConstraint(S, p) ==
    (p.game_stack > 0) =>
        \E z \in [Games -> {0, 1}] :
            /\ \A g \in Games : Count(S, game_to_idxs(g)) >= p.game_stack * z[g]
            /\ SumOver(z, Games) >= 1

\* mutant: the row allows two of a quarterback and an opposing defense
QbVsDstConstraint_AtMostTwo(S, p) ==
    (~p.allow_qb_vs_dst) =>
        \A t \in QbTeams :
            (dst_opp_to_idxs(t) # {}) =>
                Count(S, team_to_qb_idxs(t)) + Count(S, dst_opp_to_idxs(t)) <= 2

QbVsDstConstraint(S, p) ==
    (~p.allow_qb_vs_dst) =>
        \A t \in QbTeams :
            (dst_opp_to_idxs(t) # {}) =>
                Count(S, team_to_qb_idxs(t)) + Count(S, dst_opp_to_idxs(t)) <= 1

MinPlayersByTeam(m, S, p) ==
    \A t \in DOMAIN p.min_players_by_team :
        LET idxs == {j \in index(m) : Pool(m)[j].team = t}
        IN  (idxs # {}) => Count(S, idxs) >= p.min_players_by_team[t]

\* mutant: a defense without a running back of its team is not forced off
RbDstStackConstraint_NoForceOff(S, p) ==
    p.rb_dst_stack =>
        \A t \in AllTeams :
            \A i_dst \in {i \in team_to_all_idxs(t) : players[i].position = "DST"} :
                (team_to_rb_idxs(t) # {}) =>
                    (IF i_dst \in S THEN 1 ELSE 0) <= Count(S, team_to_rb_idxs(t))

RbDstStackConstraint(S, p) ==
    p.rb_dst_stack =>
        \A t \in AllTeams :
            \A i_dst \in {i \in team_to_all_idxs(t) : players[i].position = "DST"} :
                IF team_to_rb_idxs(t) # {}
                THEN (IF i_dst \in S THEN 1 ELSE 0) <= Count(S, team_to_rb_idxs(t))
                ELSE i_dst \notin S

\* the assignments of the roster rows alone; a constant, evaluated once
ClassicRosters == {S \in SUBSET index("classic") : RosterConstraints(S)}

ClassicConstraints(S, p) ==
    /\ RosterConstraints(S)
    /\ SalaryConstraints("classic", S, p)
    /\ ExcludedPlayers("classic", S, p)
    /\ ExcludedTeams("classic", S, p)
    /\ IncludedPlayers(S, p)
    /\ StackConstraint(S, p)
    /\ GameStackConstraint(S, p)
    /\ QbVsDstConstraint(S, p)
    /\ MinPlayersByTeam("classic", S, p)
    /\ RbDstStackConstraint(S, p)

(***************************************************************************)
(* The showdown MILP (showdown.py 104-200).                                *)
(***************************************************************************)
cpt_idxs == {i \in index("showdown") : entries[i].role = "CPT"}

flex_idxs == {i \in index("showdown") : entries[i].role # "CPT"}

base_key(e) == <<e.name, e.team>>

base_to_idxs(k) == {i \in index("showdown") : base_key(entries[i]) = k}

BaseKeys == {base_key(entries[i]) : i \in index("showdown")}

ShowdownRoster(S) ==
    /\ Cardinality(S) = SHOWDOWN_ROSTER_SIZE
    /\ Count(S, cpt_idxs) = 1
    /\ Count(S, flex_idxs) = 5

\* mutant: the row allows both variants of a player
OneVariantPerPlayer_Both(S) ==
    \A k \in BaseKeys :
        (Cardinality(base_to_idxs(k)) > 1) => Count(S, base_to_idxs(k)) <= 2

OneVariantPerPlayer(S) ==
    \A k \in BaseKeys :
        (Cardinality(base_to_idxs(k)) > 1) => Count(S, base_to_idxs(k)) <= 1

ProjectionBounds(S, p) ==
    /\ ~IsNone(p.min_sum_projection) =>
          TotalProjection("showdown", S) >= Val(p.min_sum_projection)
    /\ ~IsNone(p.max_sum_projection) =>
          TotalProjection("showdown", S) <= Val(p.max_sum_projection)

OwnershipBounds(S, p) ==
    /\ ~IsNone(p.min_sum_ownership) =>
          SumOwnership("showdown", S) >= Val(p.min_sum_ownership)
    /\ ~IsNone(p.max_sum_ownership) =>
          SumOwnership("showdown", S) <= Val(p.max_sum_ownership)

\* eps = 1e-6 is one unit of a six-entry product of tenths; every entry of
\* the pool owns at least one tenth, so max(ownership, eps) = ownership, and
\* sum(log o_i) >= log b  iff  prod(o_i) >= b.
eps == 1

Max2(a, b) == IF a >= b THEN a ELSE b

ProductOwnershipBounds(S, p) ==
    /\ ~IsNone(p.min_product_ownership) =>
          ProductOver(Ownership("showdown"), S) >= Max2(Val(p.min_product_ownership), eps)
    /\ ~IsNone(p.max_product_ownership) =>
          ProductOver(Ownership("showdown"), S) <= Max2(Val(p.max_product_ownership), eps)

\* (salary / 50000) * ownership, multiplied through by 50000
weighted_coeff == [i \in index("showdown") |-> entries[i].salary * entries[i].ownership]

WeightedOwnershipBounds(S, p) ==
    /\ ~IsNone(p.min_weighted_ownership) =>
          SumOver(weighted_coeff, S) >= Val(p.min_weighted_ownership) * 50000
    /\ ~IsNone(p.max_weighted_ownership) =>
          SumOver(weighted_coeff, S) <= Val(p.max_weighted_ownership) * 50000

IncludedPlayersShowdown(S, p) ==
    \A n \in p.included_players : Count(S, name_to_idxs("showdown", n)) >= 1

ShowdownRosters == {S \in SUBSET index("showdown") : ShowdownRoster(S)}

ShowdownConstraints(S, p) ==
    /\ ShowdownRoster(S)
    /\ SalaryConstraints("showdown", S, p)
    /\ OneVariantPerPlayer(S)
    /\ ProjectionBounds(S, p)
    /\ OwnershipBounds(S, p)
    /\ ProductOwnershipBounds(S, p)
    /\ WeightedOwnershipBounds(S, p)
    /\ ExcludedPlayers("showdown", S, p)
    /\ ExcludedTeams("showdown", S, p)
    /\ IncludedPlayersShowdown(S, p)
    /\ MinPlayersByTeam("showdown", S, p)

(***************************************************************************)
(* The live model: the constraints built once plus the no-good cuts added  *)
(* so far (optimizer.py 328, showdown.py 231).                             *)
(***************************************************************************)
\* mutant: the cut also removes the sets that share all but one member
NoGoodCut_TwoLess(S, c) == Count(S, c) <= Cardinality(c) - 2

\* mutant: the right-hand side of the cut is off by one
NoGoodCut_OffByOne(S, c) == Count(S, c) <= Cardinality(c)

NoGoodCut(S, c) == Count(S, c) <= Cardinality(c) - 1

Rosters(m) == IF m = "classic" THEN ClassicRosters ELSE ShowdownRosters

Constraints(m, S, p) ==
    IF m = "classic" THEN ClassicConstraints(S, p) ELSE ShowdownConstraints(S, p)

Feasible(m, p, cs) ==
    {S \in Rosters(m) :
        /\ Constraints(m, S, p)
        /\ \A k \in 1..Len(cs) : NoGoodCut(S, cs[k])}

\* mutant: the objective sums the salary column
Objective_Salary(m, S) == TotalSalary(m, S)

\* objective of both models: maximize the summed projection
Objective(m, S) == TotalProjection(m, S)

ArgMax(m, F) == {S \in F : \A T \in F : Objective(m, T) <= Objective(m, S)}

(***************************************************************************)
(* The oracle, prob.solve(solver_cmd).  An answer is proven optimal,       *)
(* infeasible, or cut short by the time limit, then with the incumbent     *)
(* found so far (any feasible assignment) or with none.  The time limit    *)
(* exists only when solver_time_limit_s is set (timeLimit keyword of       *)
(* PULP_CBC_CMD).  PuLP's CBC interface reports a stopped run that has an  *)
(* incumbent as LpStatusOptimal and one without as LpStatusNotSolved.      *)
(***************************************************************************)
Answer(o, x) == [outcome |-> o, x |-> x]

solve(m, p, cs) ==
    LET F == Feasible(m, p, cs)
        limited == ~IsNone(p.solver_time_limit_s)
    IN  (IF F = {} THEN {Answer("infeasible", None)}
         ELSE {Answer("optimal", Some(S)) : S \in ArgMax(m, F)})
        \cup (IF limited
              THEN {Answer("timeLimitReached", Some(S)) : S \in F}
                   \cup {Answer("timeLimitReached", None)}
              ELSE {})

status(r) ==
    CASE r.outcome = "optimal" -> LpStatusOptimal
      [] r.outcome = "infeasible" -> LpStatusInfeasible
      [] r.outcome = "timeLimitReached" /\ ~IsNone(r.x) -> LpStatusOptimal
      [] OTHER -> LpStatusNotSolved

\* the selector and the rule DSL take no part in an enumeration run
DivIdle ==
    /\ candidates = <<>>
    /\ quotas_by_source = EmptyDict
    /\ allow_shortfall = FALSE
    /\ direct = FALSE
    /\ seed = None
    /\ dpc = "idle"
    /\ pool = <<>>
    /\ best_idx = 0
    /\ selected = <<>>
    /\ remaining_by_source = EmptyDict
    /\ remaining_indices = <<>>
    /\ selection = None
    /\ written = None

DslIdle ==
    /\ raw_rules = <<>>
    /\ lineup = {}
    /\ rpc = "idle"
    /\ parsed = None
    /\ violated = None

(***************************************************************************)
(* Diversification (src/feature_diversify).  Distances are the rationals   *)
(* the float expressions of the code stand for, kept as <<numerator,       *)
(* denominator>> pairs with a positive denominator: every distance of two  *)
(* small token sets and every mean of a few of them is far more than       *)
(* math.isclose's 1e-9 away from any other, so isclose is equality here.   *)
(***************************************************************************)
MaxCandidates == 4

MaxQuota == 2

Frac(n, d) == <<n, d>>

RatAdd(a, b) == Frac(a[1] * b[2] + b[1] * a[2], a[2] * b[2])

RatSub(a, b) == Frac(a[1] * b[2] - b[1] * a[2], a[2] * b[2])

RatDiv(a, n) == Frac(a[1], a[2] * n)

RatEq(a, b) == a[1] * b[2] = b[1] * a[2]

RatLt(a, b) == a[1] * b[2] < b[1] * a[2]

RatMin(a, b) == IF RatLt(b, a) THEN b ELSE a

LineupRecord(src, row, proj, toks) ==
    [source_key |-> src, row_index |-> row, projection |-> proj,
     player_tokens |-> toks]

\* mutant: the intersection is taken to be the whole of a
jaccard_distance_LeftSize(a, b) ==
    IF a = {} /\ b = {} THEN Frac(0, 1)
    ELSE LET inter == Cardinality(a)
             union == Cardinality(a \cup b)
         IN  IF union = 0 THEN Frac(0, 1)
             ELSE RatSub(Frac(1, 1), Frac(inter, union))

jaccard_distance(a, b) ==
    IF a = {} /\ b = {} THEN Frac(0, 1)
    ELSE LET inter == Cardinality(a \cap b)
             union == Cardinality(a \cup b)
         IN  IF union = 0 THEN Frac(0, 1)
             ELSE RatSub(Frac(1, 1), Frac(inter, union))

RECURSIVE SumDistances(_, _, _)
SumDistances(target_set, others, k) ==
    IF k > Len(others) THEN Frac(0, 1)
    ELSE RatAdd(jaccard_distance(target_set, others[k]),
                SumDistances(target_set, others, k + 1))

\* _avg_distance_to_pool
avg_distance_to_pool(target_set, others) ==
    IF others = <<>> THEN Frac(0, 1)
    ELSE RatDiv(SumDistances(target_set, others, 1), Len(others))

\* sets[:i] + sets[i + 1:]
Without(sq, i) == SubSeq(sq, 1, i - 1) \o SubSeq(sq, i + 1, Len(sq))

sets(pl) == [i \in 1..Len(pl) |-> pl[i].player_tokens]

score(pl, i) == avg_distance_to_pool(sets(pl)[i], Without(sets(pl), i))

\* the seed scan: best_score starts at -1.0 and only a strictly greater
\* score replaces it, so the first position of the greatest score is kept
RECURSIVE SeedScan(_, _, _, _)
SeedScan(pl, i, b_idx, b_score) ==
    IF i > Len(pl) THEN b_idx
    ELSE LET sc == score(pl, i)
         IN  IF RatLt(b_score, sc)
             THEN SeedScan(pl, i + 1, i, sc)
             ELSE SeedScan(pl, i + 1, b_idx, b_score)

\* mutant: a source whose quota is used up can still be taken from
can_take_from_AtZero(rem, source_key) ==
    (IF source_key \in DOMAIN rem THEN rem[source_key] ELSE 0) >= 0

\* remaining_by_source.get(source_key, 0) > 0
can_take_from(rem, source_key) ==
    (IF source_key \in DOMAIN rem THEN rem[source_key] ELSE 0) > 0


\* max(range(len(pool)), key=(projection or -inf, -row_index)); the first
\* greatest key wins, and a projection of 0.0 counts as missing
FallbackKeyLe(a, b) ==
    LET pa == IF IsNone(a.projection) \/ Val(a.projection) = 0 THEN None ELSE a.projection
        pb == IF IsNone(b.projection) \/ Val(b.projection) = 0 THEN None ELSE b.projection
    IN  \/ IsNone(pa) /\ ~IsNone(pb)
        \/ ~IsNone(pa) /\ ~IsNone(pb) /\ Val(pa) < Val(pb)
        \/ pa = pb /\ a.row_index >= b.row_index

fallback_idx(pl) ==
    CHOOSE i \in 1..Len(pl) :
        /\ \A j \in 1..Len(pl) : FallbackKeyLe(pl[j], pl[i])
        /\ \A j \in 1..(i - 1) : ~FallbackKeyLe(pl[i], pl[j])

\* (proj, -row_index) with a missing projection as -inf
tiebreak(rec) == [proj |-> rec.projection, neg_row |-> 0 - rec.row_index]

\* tuple comparison a > b
TiebreakGt(a, b) ==
    \/ ~IsNone(a.proj) /\ (IsNone(b.proj) \/ Val(a.proj) > Val(b.proj))
    \/ a.proj = b.proj /\ a.neg_row > b.neg_row

selected_sets(pl, sel) == [k \in 1..Len(sel) |-> sets(pl)[sel[k]]]

RECURSIVE MinDistance(_, _, _)
MinDistance(s, ss, k) ==
    IF k = Len(ss) THEN jaccard_distance(s, ss[k])
    ELSE RatMin(jaccard_distance(s, ss[k]), MinDistance(s, ss, k + 1))

min_dist(pl, sel, i) ==
    IF sel # <<>> THEN MinDistance(sets(pl)[i], selected_sets(pl, sel), 1)
    ELSE score(pl, i)

\* mutant: a candidate tied on the distance replaces the best one
Better_LastTie(cand, best) ==
    \/ RatLt(best.min_dist, cand.min_dist)
    \/ RatEq(cand.min_dist, best.min_dist)

\* min_dist > best_min_dist or (isclose(...) and tiebreak > best_tiebreak)
Better(cand, best) ==
    \/ RatLt(best.min_dist, cand.min_dist)
    \/ /\ RatEq(cand.min_dist, best.min_dist)
       /\ TiebreakGt(cand.tiebreak, best.tiebreak)

\* best_i = -1, best_min_dist = -1.0, best_tiebreak = (-inf, +inf); every
\* -row_index is at most 0, so 1 stands for +inf
NoBest == [i |-> 0, min_dist |-> Frac(-1, 1),
           tiebreak |-> [proj |-> None, neg_row |-> 1]]

\* mutant: the scan stops before the last remaining position
RECURSIVE GreedyScan_SkipsLast(_, _, _, _, _, _)
GreedyScan_SkipsLast(pl, sel, rem, idxs, k, best) ==
    IF k >= Len(idxs) THEN best
    ELSE LET i == idxs[k]
             cand == [i |-> i, min_dist |-> min_dist(pl, sel, i),
                      tiebreak |-> tiebreak(pl[i])]
         IN  IF ~can_take_from(rem, pl[i].source_key)
             THEN GreedyScan_SkipsLast(pl, sel, rem, idxs, k + 1, best)
             ELSE IF Better(cand, best)
                  THEN GreedyScan_SkipsLast(pl, sel, rem, idxs, k + 1, cand)
                  ELSE GreedyScan_SkipsLast(pl, sel, rem, idxs, k + 1, best)

\* the for loop over remaining_indices of one greedy iteration
RECURSIVE GreedyScan(_, _, _, _, _, _)
GreedyScan(pl, sel, rem, idxs, k, best) ==
    IF k > Len(idxs) THEN best
    ELSE LET i == idxs[k]
             cand == [i |-> i, min_dist |-> min_dist(pl, sel, i),
                      tiebreak |-> tiebreak(pl[i])]
         IN  IF ~can_take_from(rem, pl[i].source_key)
             THEN GreedyScan(pl, sel, rem, idxs, k + 1, best)
             ELSE IF Better(cand, best)
                  THEN GreedyScan(pl, sel, rem, idxs, k + 1, cand)
                  ELSE GreedyScan(pl, sel, rem, idxs, k + 1, best)

\* the pairwise distances of the selected sets, i < j
PairDistances(ss) ==
    [pr \in {q \in (1..Len(ss)) \X (1..Len(ss)) : q[1] < q[2]} |->
        jaccard_distance(ss[pr[1]], ss[pr[2]])]

RECURSIVE RatSumOver(_, _)
RatSumOver(f, S) ==
    IF S = {} THEN Frac(0, 1)
    ELSE LET x == CHOOSE y \in S : TRUE
         IN  RatAdd(f[x], RatSumOver(f, S \ {x}))

\* float("nan") is None here
SelectionResult(pl, sel) ==
    LET ss == selected_sets(pl, sel)
        dists == PairDistances(ss)
        D == DOMAIN dists
    IN  [selected |-> [k \in 1..Len(sel) |-> pl[sel[k]]],
         min_pairwise_jaccard |->
             IF Len(ss) >= 2
             THEN Some(dists[CHOOSE x \in D : \A y \in D : ~RatLt(dists[y], dists[x])])
             ELSE None,
         avg_pairwise_jaccard |->
             IF Len(ss) >= 2
             THEN Some(RatDiv(RatSumOver(dists, D), Cardinality(D)))
             ELSE None]

(***************************************************************************)
(* Inputs of a diversification run: the records read from the workbooks    *)
(* (in file order) and the quotas of the --pick arguments, or the          *)
(* arguments of a direct call of the selector.                             *)
(***************************************************************************)
Catalogue ==
    << LineupRecord("A:Lineups", 0, Some(100), {"P1", "P2", "P3"}),
       LineupRecord("A:Lineups", 1, Some(100), {"P1", "P2", "P4"}),
       LineupRecord("A:Lineups", 2, None,      {"P1", "P2", "P3"}),
       LineupRecord("B:Lineups", 0, Some(90),  {"P5", "P6", "P7"}),
       LineupRecord("B:Lineups", 1, Some(95),  {}),
       LineupRecord("C:Lineups", 0, Some(80),  {"P1", "P5"}) >>

CandidateLists ==
    {[k \in 1..Len(ix) |-> Catalogue[ix[k]]] :
        ix \in {sq \in UNION {[1..n -> 1..Len(Catalogue)] : n \in 0..MaxCandidates} :
                   \A a, b \in 1..Len(sq) : a # b => sq[a] # sq[b]}}

\* a count of --pick is any integer: int(count_str) is not range-checked
QuotaMaps ==
    UNION {[K -> -1..MaxQuota] : K \in SUBSET {"A:Lineups", "B:Lineups"}}

\* read_lineups_from_source keeps a row only if it has a player token, and
\* main reads only the sources of its --pick arguments
Loadable(cs, q) ==
    \A k \in 1..Len(cs) : /\ cs[k].player_tokens # {}
                          /\ cs[k].source_key \in DOMAIN q

EnumIdle ==
    /\ mode = "classic"
    /\ params = Parameters
    /\ max_lineups = None
    /\ rules = None
    /\ pc = "idle"
    /\ target = 0
    /\ lineups = <<>>
    /\ previous_solutions = <<>>
    /\ cuts = <<>>
    /\ outcomes = <<>>
    /\ result = <<>>
    /\ rows = <<>>

InitDiversify ==
    /\ EnumIdle
    /\ DslIdle
    /\ candidates \in CandidateLists
    /\ quotas_by_source \in QuotaMaps
    /\ direct \in BOOLEAN
    /\ allow_shortfall \in (IF direct THEN {FALSE} ELSE BOOLEAN)
    /\ seed \in (IF direct THEN {None, Some(0)} ELSE {None})
    /\ direct \/ Loadable(candidates, quotas_by_source)
    /\ dpc = IF direct THEN "call" ELSE "main"
    /\ pool = <<>>
    /\ best_idx = 0
    /\ selected = <<>>
    /\ remaining_by_source = EmptyDict
    /\ remaining_indices = <<>>
    /\ selection = None
    /\ written = None

\* Counter(rec.source_key for rec in records).get(key, 0)
counts_by_source(recs, key) ==
    Cardinality({k \in 1..Len(recs) : recs[k].source_key = key})

\* mutant: the shortfall test compares the wrong way round
Shortfall_Reversed(recs, q, key) == counts_by_source(recs, key) > q[key]

\* have < need
Shortfall(recs, q, key) == counts_by_source(recs, key) < q[key]

\* main up to the call of the selector (cli.py 117-146)
main ==
    /\ dpc = "main"
    /\ dpc' = IF \/ DOMAIN quotas_by_source = {}
                 \/ candidates = <<>>
                 \/ /\ ~allow_shortfall
                    /\ \E key \in DOMAIN quotas_by_source :
                          Shortfall(candidates, quotas_by_source, key)
              THEN "failed" ELSE "call"
    /\ UNCHANGED <<enumvars, dslvars, candidates, quotas_by_source,
                   allow_shortfall, direct, seed, pool, best_idx, selected,
                   remaining_by_source, remaining_indices, selection, written>>

\* mutant: with a seed argument the last record of the pool is the seed
farthest_first_with_quotas_Seeded ==
    /\ dpc = "call"
    /\ LET pl == SelectSeq(candidates,
                           LAMBDA c : c.source_key \in DOMAIN quotas_by_source)
           scanned == SeedScan(pl, 1, 0, Frac(-1, 1))
           b == IF ~IsNone(seed) THEN Len(pl)
                ELSE IF scanned = 0 THEN fallback_idx(pl) ELSE scanned
           take == can_take_from(quotas_by_source, pool'[best_idx'].source_key)
       IN  IF pl = <<>>
           THEN /\ selection' = Some(SelectionResult(<<>>, <<>>))
                /\ dpc' = "returned"
                /\ UNCHANGED <<pool, best_idx, selected, remaining_by_source,
                               remaining_indices>>
           ELSE /\ pool' = pl
                /\ best_idx' = b
                /\ selected' = IF take THEN <<best_idx'>> ELSE <<>>
                /\ remaining_by_source' =
                       IF take
                       THEN [quotas_by_source EXCEPT
                                ![pool'[best_idx'].source_key] = @ - 1]
                       ELSE quotas_by_source
                /\ remaining_indices' =
                       SelectSeq([i \in 1..Len(pool') |-> i],
                                 LAMBDA i : i # best_idx')
                /\ dpc' = "greedy"
                /\ UNCHANGED selection
    /\ UNCHANGED <<enumvars, dslvars, candidates, quotas_by_source,
                   allow_shortfall, direct, seed, written>>

\* the pool filter, the seed and its take (selector.py 44-80)
farthest_first_with_quotas ==
    /\ dpc = "call"
    /\ LET pl == SelectSeq(candidates,
                           LAMBDA c : c.source_key \in DOMAIN quotas_by_source)
           scanned == SeedScan(pl, 1, 0, Frac(-1, 1))
           b == IF scanned = 0 THEN fallback_idx(pl) ELSE scanned
           take == can_take_from(quotas_by_source, pool'[best_idx'].source_key)
       IN  IF pl = <<>>
           THEN /\ selection' = Some(SelectionResult(<<>>, <<>>))
                /\ dpc' = "returned"
                /\ UNCHANGED <<pool, best_idx, selected, remaining_by_source,
                               remaining_indices>>
           ELSE /\ pool' = pl
                /\ best_idx' = b
                /\ selected' = IF take THEN <<best_idx'>> ELSE <<>>
                /\ remaining_by_source' =
                       IF take
                       THEN [quotas_by_source EXCEPT
                                ![pool'[best_idx'].source_key] = @ - 1]
                       ELSE quotas_by_source
                /\ remaining_indices' =
                       SelectSeq([i \in 1..Len(pool') |-> i],
                                 LAMBDA i : i # best_idx')
                /\ dpc' = "greedy"
                /\ UNCHANGED selection
    /\ UNCHANGED <<enumvars, dslvars, candidates, quotas_by_source,
                   allow_shortfall, direct, seed, written>>

\* mutant: the chosen position stays among the remaining ones
GreedyIteration_KeepsIndex ==
    /\ dpc = "greedy"
    /\ LET go == \E s \in DOMAIN remaining_by_source : remaining_by_source[s] > 0
       IN  \E best \in {GreedyScan(pool, selected, remaining_by_source,
                                   remaining_indices, 1, NoBest)} :
           IF go /\ best.i # 0
           THEN /\ selected' = Append(selected, best.i)
                /\ remaining_by_source' =
                       [remaining_by_source EXCEPT ![pool[best.i].source_key] = @ - 1]
                /\ remaining_indices' = remaining_indices
                /\ UNCHANGED <<dpc, selection>>
           ELSE /\ selection' = Some(SelectionResult(pool, selected))
                /\ dpc' = "returned"
                /\ UNCHANGED <<selected, remaining_by_source, remaining_indices>>
    /\ UNCHANGED <<enumvars, dslvars, candidates, quotas_by_source,
                   allow_shortfall, direct, seed, pool, best_idx, written>>

\* one test of the while loop and, if it passes, one greedy iteration;
\* otherwise the metrics and the return (selector.py 83-130)
GreedyIteration ==
    /\ dpc = "greedy"
    /\ LET go == \E s \in DOMAIN remaining_by_source : remaining_by_source[s] > 0
       IN  \E best \in {GreedyScan(pool, selected, remaining_by_source,
                                   remaining_indices, 1, NoBest)} :
           IF go /\ best.i # 0
           THEN /\ selected' = Append(selected, best.i)
                /\ remaining_by_source' =
                       [remaining_by_source EXCEPT ![pool[best.i].source_key] = @ - 1]
                /\ remaining_indices' =
                       SelectSeq(remaining_indices, LAMBDA i : i # best.i)
                /\ UNCHANGED <<dpc, selection>>
           ELSE /\ selection' = Some(SelectionResult(pool, selected))
                /\ dpc' = "returned"
                /\ UNCHANGED <<selected, remaining_by_source, remaining_indices>>
    /\ UNCHANGED <<enumvars, dslvars, candidates, quotas_by_source,
                   allow_shortfall, direct, seed, pool, best_idx, written>>

\* main after the call: the recount, the empty check and the workbook
\* (cli.py 150-263)
WriteSelection ==
    /\ dpc = "returned"
    /\ ~direct
    /\ LET sel == Val(selection).selected
           over == /\ allow_shortfall
                   /\ \E key \in DOMAIN quotas_by_source :
                         /\ Shortfall(candidates, quotas_by_source, key)
                         /\ counts_by_source(sel, key)
                                > counts_by_source(candidates, key)
       IN  IF over \/ sel = <<>>
           THEN dpc' = "failed" /\ UNCHANGED written
           ELSE dpc' = "written" /\ written' = Some(sel)
    /\ UNCHANGED <<enumvars, dslvars, candidates, quotas_by_source,
                   allow_shortfall, direct, seed, pool, best_idx, selected,
                   remaining_by_source, remaining_indices, selection>>

NextDiversify ==
    \/ main
    \/ farthest_first_with_quotas
    \/ GreedyIteration
    \/ WriteSelection

SpecDiversify == InitDiversify /\ [][NextDiversify]_vars

(***************************************************************************)
(* Progress of the selector: it runs in the caller's thread, which is not  *)
(* stopped inside the call.  SelectorStep is a step of the call seen       *)
(* through dpc and selected alone: under SpecDiversify its steps are the   *)
(* steps of farthest_first_with_quotas and GreedyIteration, and it is      *)
(* enabled exactly when one of them is, so the condition below is weak     *)
(* fairness of the call and its greedy loop.                               *)
(***************************************************************************)
SelectorStep ==
    /\ dpc \in {"call", "greedy"}
    /\ \/ selected' = selected /\ dpc' \in {"greedy", "returned"} \ {dpc}
       \/ Len(selected') = Len(selected) + 1 /\ dpc' = "greedy"

SpecDiversifyFair == SpecDiversify /\ WF_<<dpc, selected>>(SelectorStep)


(***************************************************************************)
(* The rule DSL (src/constraints/showdown_dsl.py).  A raw value is what    *)
(* yaml.safe_load hands over: a mapping, a list, a string, an integer or   *)
(* None, tagged with its Python type.  A parser returns Ok(value) or       *)
(* Err(message), the ValueError it raises; a message is kept as the        *)
(* fragments it is formatted from, so that the rule name it may carry can  *)
(* be seen.  Selector fields are strings or None in the inputs.            *)
(***************************************************************************)
MaxNesting == 2

PyNone == [none |-> TRUE]

PyStr(x) == [str |-> x]

PyInt(n) == [int |-> n]

PyList(sq) == [list |-> sq]

PyDict(f) == [dict |-> f]

\* the Python type of a raw value and the value it holds
K(data) == CHOOSE t \in DOMAIN data : TRUE

V(data) == data[K(data)]

\* type(data).__name__
TypeName(data) ==
    CASE K(data) = "none" -> "NoneType"
      [] OTHER -> K(data)

\* data.get(key)
Get(data, key) == IF key \in DOMAIN V(data) THEN V(data)[key] ELSE PyNone

\* str.upper on the strings of the inputs
upper(x) ==
    CASE x = "cpt" -> "CPT"
      [] x = "flex" -> "FLEX"
      [] x = "team_a" -> "TEAM_A"
      [] x = "team_b" -> "TEAM_B"
      [] x = "qb" -> "QB"
      [] x = "rb" -> "RB"
      [] x = "wr" -> "WR"
      [] x = "te" -> "TE"
      [] x = "dst" -> "DST"
      [] OTHER -> x

Ok(value) == [ok |-> TRUE, value |-> value]

Err(message) == [ok |-> FALSE, error |-> message]

Selector(slot, team, pos, pos_in, type) ==
    [slot |-> slot, team |-> team, pos |-> pos, pos_in |-> pos_in, type |-> type]

CountCondition(selector, min, max) ==
    [kind |-> "count", selector |-> selector, min |-> min, max |-> max]

ForbidCondition(left, right) == [kind |-> "forbid", left |-> left, right |-> right]

AnyOf(options) == [kind |-> "any_of", options |-> options]

ConstraintRule(name, when, enforce) == [name |-> name, when |-> when, enforce |-> enforce]

\* str(data[f]).upper() if f in data and data[f] is not None else None
SelectorField(data, f) ==
    IF f \in DOMAIN V(data) /\ K(V(data)[f]) # "none"
    THEN Some(upper(V(V(data)[f]))) ELSE None

parse_selector(data) ==
    IF K(data) # "dict"
    THEN Err(<<"selector must be a mapping, got ", TypeName(data)>>)
    ELSE LET pos_in_raw == Get(data, "pos_in")
         IN  IF K(pos_in_raw) \notin {"none", "list"}
             THEN Err(<<"selector.pos_in must be a list if provided">>)
             ELSE Ok(Selector(
                     SelectorField(data, "slot"),
                     SelectorField(data, "team"),
                     SelectorField(data, "pos"),
                     IF K(pos_in_raw) = "none" THEN None
                     ELSE Some([i \in 1..Len(V(pos_in_raw)) |-> upper(V(V(pos_in_raw)[i]))]),
                     SelectorField(data, "type")))

\* int(value) succeeds on an integer and fails on the strings of the inputs
parse_int_or_none(value, field_name) ==
    CASE K(value) = "none" -> Ok(None)
      [] K(value) = "int" -> Ok(Some(V(value)))
      [] OTHER -> Err(<<field_name, " must be an integer if provided">>)

parse_count_condition(data) ==
    IF K(data) # "dict" THEN Err(<<"count condition must be a mapping">>)
    ELSE IF "selector" \notin DOMAIN V(data)
    THEN Err(<<"count condition missing required 'selector'">>)
    ELSE LET selector == parse_selector(V(data)["selector"])
             min_v == parse_int_or_none(Get(data, "min"), "min")
             max_v == parse_int_or_none(Get(data, "max"), "max")
         IN  IF ~selector.ok THEN selector
             ELSE IF ~min_v.ok THEN min_v
             ELSE IF ~max_v.ok THEN max_v
             ELSE Ok(CountCondition(selector.value, min_v.value, max_v.value))

\* {"selector": {...}} is unwrapped, a direct selector is taken as it is
Unwrap(side) ==
    IF K(side) = "dict" /\ "selector" \in DOMAIN V(side) THEN V(side)["selector"] ELSE side

\* mutant: a side given as {"selector": {...}} is not unwrapped
parse_forbid_condition_NoUnwrap(data) ==
    IF K(data) # "dict" THEN Err(<<"forbid condition must be a mapping">>)
    ELSE IF "left" \notin DOMAIN V(data) \/ "right" \notin DOMAIN V(data)
    THEN Err(<<"forbid condition requires 'left' and 'right' selectors">>)
    ELSE LET left == parse_selector(V(data)["left"])
             right == parse_selector(V(data)["right"])
         IN  IF ~left.ok THEN left
             ELSE IF ~right.ok THEN right
             ELSE Ok(ForbidCondition(left.value, right.value))

parse_forbid_condition(data) ==
    IF K(data) # "dict" THEN Err(<<"forbid condition must be a mapping">>)
    ELSE IF "left" \notin DOMAIN V(data) \/ "right" \notin DOMAIN V(data)
    THEN Err(<<"forbid condition requires 'left' and 'right' selectors">>)
    ELSE LET left == parse_selector(Unwrap(V(data)["left"]))
             right == parse_selector(Unwrap(V(data)["right"]))
         IN  IF ~left.ok THEN left
             ELSE IF ~right.ok THEN right
             ELSE Ok(ForbidCondition(left.value, right.value))

RECURSIVE parse_enforce_clause(_)
RECURSIVE ParseClauses(_, _, _)

\* the clauses of a list in order; the first error ends the pass
ParseClauses(sq, k, done) ==
    IF k > Len(sq) THEN Ok(done)
    ELSE LET c == parse_enforce_clause(sq[k])
         IN  IF ~c.ok THEN c ELSE ParseClauses(sq, k + 1, Append(done, c.value))

\* mutant: only the first option is kept
parse_any_of_FirstOnly(data) ==
    IF K(data) # "list" THEN Err(<<"any_of must be a list">>)
    ELSE LET options == ParseClauses(V(data), 1, <<>>)
         IN  IF ~options.ok THEN options
             ELSE IF options.value = <<>>
             THEN Err(<<"any_of requires at least one option">>)
             ELSE Ok(AnyOf(<<options.value[1]>>))

parse_any_of(data) ==
    IF K(data) # "list" THEN Err(<<"any_of must be a list">>)
    ELSE LET options == ParseClauses(V(data), 1, <<>>)
         IN  IF ~options.ok THEN options
             ELSE IF options.value = <<>>
             THEN Err(<<"any_of requires at least one option">>)
             ELSE Ok(AnyOf(options.value))

parse_enforce_clause(data) ==
    IF K(data) # "dict" THEN Err(<<"enforce clause must be a mapping">>)
    ELSE IF "count" \in DOMAIN V(data) THEN parse_count_condition(V(data)["count"])
    ELSE IF "forbid" \in DOMAIN V(data) THEN parse_forbid_condition(V(data)["forbid"])
    ELSE IF "any_of" \in DOMAIN V(data) THEN parse_any_of(V(data)["any_of"])
    ELSE Err(<<"enforce clause must contain one of: 'count', 'forbid', 'any_of'">>)

\* mutant: the guard is dropped
parse_rule_NoWhen(name, data) ==
    IF K(data) # "dict" THEN Err(<<"rule '", name, "' must be a mapping">>)
    ELSE LET enforce_raw == Get(data, "enforce")
         IN  IF K(enforce_raw) # "list" \/ V(enforce_raw) = <<>>
             THEN Err(<<"rule '", name, "' must have a non-empty 'enforce' list">>)
             ELSE LET enforce == ParseClauses(V(enforce_raw), 1, <<>>)
                  IN  IF ~enforce.ok THEN enforce
                      ELSE Ok(ConstraintRule(name, None, enforce.value))

parse_rule(name, data) ==
    IF K(data) # "dict" THEN Err(<<"rule '", name, "' must be a mapping">>)
    ELSE LET when_raw == Get(data, "when")
             when == IF K(when_raw) = "none" THEN Ok(None)
                     ELSE IF K(when_raw) # "dict" \/ "count" \notin DOMAIN V(when_raw)
                     THEN Err(<<"rule '", name, "': 'when' must be of the form {count: ...}">>)
                     ELSE LET c == parse_count_condition(V(when_raw)["count"])
                          IN  IF c.ok THEN Ok(Some(c.value)) ELSE c
             enforce_raw == Get(data, "enforce")
         IN  IF ~when.ok THEN when
             ELSE IF K(enforce_raw) # "list" \/ V(enforce_raw) = <<>>
             THEN Err(<<"rule '", name, "' must have a non-empty 'enforce' list">>)
             ELSE LET enforce == ParseClauses(V(enforce_raw), 1, <<>>)
                  IN  IF ~enforce.ok THEN enforce
                      ELSE Ok(ConstraintRule(name, when.value, enforce.value))

\* a mapping is kept as its items in insertion order; names are strings
RECURSIVE parse_rules_mapping(_, _, _)
parse_rules_mapping(items, k, out) ==
    IF k > Len(items) THEN Ok(out)
    ELSE LET r == parse_rule(items[k][1], items[k][2])
         IN  IF ~r.ok THEN r
             ELSE parse_rules_mapping(items, k + 1, Append(out, r.value))


(***************************************************************************)
(* Evaluation of parsed rules against a lineup.  The evaluator the tests   *)
(* import from src.showdown (_violated_rules) is described by the          *)
(* specification, section 4.2: a selector matches an entry iff every field *)
(* it carries equals the entry's field, absent fields being wildcards; the *)
(* type field is read against the entry's position, as the DST rule of     *)
(* tests/test_showdown_dsl.py needs.                                       *)
(***************************************************************************)
Range(sq) == {sq[i] : i \in 1..Len(sq)}

selector_matches(sel, e) ==
    /\ IsNone(sel.slot) \/ Val(sel.slot) = e.role
    /\ IsNone(sel.team) \/ Val(sel.team) = e.team
    /\ IsNone(sel.pos) \/ Val(sel.pos) = e.position
    /\ IsNone(sel.pos_in) \/ e.position \in Range(Val(sel.pos_in))
    /\ IsNone(sel.type) \/ Val(sel.type) = e.position

count_holds(c, lu) ==
    LET n == Cardinality({e \in lu : selector_matches(c.selector, e)})
    IN  /\ IsNone(c.min) \/ n >= Val(c.min)
        /\ IsNone(c.max) \/ n <= Val(c.max)

RECURSIVE clause_holds(_, _)
clause_holds(cl, lu) ==
    CASE cl.kind = "count" -> count_holds(cl, lu)
      [] cl.kind = "forbid" ->
            ~(/\ \E e \in lu : selector_matches(cl.left, e)
              /\ \E e \in lu : selector_matches(cl.right, e))
      [] OTHER -> \E i \in 1..Len(cl.options) : clause_holds(cl.options[i], lu)

rule_violated(rule, lu) ==
    /\ IsNone(rule.when) \/ count_holds(Val(rule.when), lu)
    /\ \E i \in 1..Len(rule.enforce) : ~clause_holds(rule.enforce[i], lu)

\* (violated, names)
violated_rules(lu, rs) ==
    LET names == {rs[i].name : i \in {j \in 1..Len(rs) : rule_violated(rs[j], lu)}}
    IN  [violated |-> names # {}, names |-> names]


(***************************************************************************)
(* Inputs of the rule DSL: raw rule mappings, well formed and malformed,   *)
(* and lineups over the six entries of tests/test_showdown_dsl.py.         *)
(***************************************************************************)
MkDict(items) ==
    PyDict([key \in {items[i][1] : i \in 1..Len(items)} |->
               items[CHOOSE i \in 1..Len(items) : items[i][1] = key][2]])

DslEntry(n, t, o, pos, r) ==
    [name |-> n, team |-> t, opponent |-> o, position |-> pos, role |-> r]

DslPool ==
    { DslEntry("QB_A_CPT", "TEAM_A", "TEAM_B", "QB", "CPT"),
      DslEntry("RB_A", "TEAM_A", "TEAM_B", "RB", "FLEX"),
      DslEntry("WR_A", "TEAM_A", "TEAM_B", "WR", "FLEX"),
      DslEntry("WR_B", "TEAM_B", "TEAM_A", "WR", "FLEX"),
      DslEntry("TE_B", "TEAM_B", "TEAM_A", "TE", "FLEX"),
      DslEntry("DST_B", "TEAM_B", "TEAM_A", "DST", "FLEX") }

SelCptQbA == MkDict(<< <<"slot", PyStr("cpt")>>, <<"pos", PyStr("QB")>>,
                       <<"team", PyStr("TEAM_A")>> >>)

SelDstB == MkDict(<< <<"type", PyStr("DST")>>, <<"team", PyStr("TEAM_B")>> >>)

SelSkillA ==
    MkDict(<< <<"team", PyStr("TEAM_A")>>,
              <<"pos_in", PyList(<<PyStr("rb"), PyStr("WR"), PyStr("TE")>>)>> >>)

SelA == MkDict(<< <<"team", PyStr("TEAM_A")>> >>)

SelB == MkDict(<< <<"team", PyStr("team_b")>> >>)

SelAny == MkDict(<<>>)

SelWr == MkDict(<< <<"slot", PyNone>>, <<"pos", PyStr("WR")>> >>)

SelBadPosIn == MkDict(<< <<"team", PyStr("TEAM_A")>>, <<"pos_in", PyStr("RB")>> >>)

RawCount(sel, mn, mx) ==
    MkDict(<< <<"count", MkDict(<< <<"selector", sel>>, <<"min", mn>>, <<"max", mx>> >>)>> >>)

RawForbid(l, r) ==
    MkDict(<< <<"forbid", MkDict(<< <<"left", l>>, <<"right", r>> >>)>> >>)

Wrapped(sel) == MkDict(<< <<"selector", sel>> >>)

RawAnyOf(opts) == MkDict(<< <<"any_of", PyList(opts)>> >>)

CountA3 == RawCount(SelA, PyInt(3), PyNone)

CountB3 == RawCount(SelB, PyInt(3), PyNone)

CountSkillA2 == RawCount(SelSkillA, PyInt(2), PyNone)

ForbidCptQbA_DstB == RawForbid(Wrapped(SelCptQbA), Wrapped(SelDstB))

CountBadSelector == RawCount(PyStr("QB"), PyInt(1), PyNone)

GoodLeaves ==
    { CountA3, CountB3, CountSkillA2,
      RawCount(SelCptQbA, PyInt(1), PyNone),
      RawCount(SelAny, PyNone, PyInt(4)),
      RawCount(SelWr, PyInt(1), PyInt(1)),
      ForbidCptQbA_DstB,
      RawForbid(SelA, SelB),
      RawForbid(Wrapped(SelSkillA), SelDstB),
      RawForbid(SelAny, Wrapped(SelDstB)) }

BadLeaves ==
    { CountBadSelector,
      RawCount(SelBadPosIn, PyInt(1), PyNone),
      RawCount(SelA, PyStr("two"), PyNone),
      MkDict(<< <<"count", PyStr("x")>> >>),
      MkDict(<< <<"count", MkDict(<< <<"min", PyInt(1)>> >>)>> >>),
      RawForbid(PyStr("QB"), SelDstB),
      RawForbid(SelA, Wrapped(SelBadPosIn)),
      MkDict(<< <<"forbid", MkDict(<< <<"left", SelA>> >>)>> >>),
      MkDict(<< <<"any_of", PyStr("x")>> >>),
      MkDict(<<>>),
      PyStr("count") }

\* options of the innermost any_of lists
Options0 == {CountA3, CountB3, ForbidCptQbA_DstB, CountBadSelector}

\* the any_of clauses of nesting depth d exactly
RECURSIVE AnyOfs(_)
AnyOfs(d) ==
    IF d = 1
    THEN {RawAnyOf(sq) : sq \in UNION {[1..n -> Options0] : n \in 0..2}}
    ELSE UNION {{RawAnyOf(<<x>>), RawAnyOf(<<x, l>>), RawAnyOf(<<l, x>>)} :
                   x \in AnyOfs(d - 1), l \in {CountA3, CountBadSelector}}

RawClauses == GoodLeaves \cup BadLeaves \cup UNION {AnyOfs(d) : d \in 1..MaxNesting}

RawRule(when, enforce) == MkDict(<< <<"when", when>>, <<"enforce", enforce>> >>)

RawWhens ==
    { MkDict(<< <<"count", MkDict(<< <<"selector", SelCptQbA>>, <<"min", PyInt(1)>> >>)>> >>),
      MkDict(<< <<"count", MkDict(<< <<"selector", SelB>>, <<"max", PyInt(2)>> >>)>> >>),
      MkDict(<< <<"count", MkDict(<< <<"selector", PyList(<<>>)>> >>)>> >>),
      MkDict(<< <<"forbid", PyNone>> >>),
      PyStr("count") }

RawRuleConfigs ==
         {RawRule(PyNone, PyList(<<c>>)) : c \in RawClauses}
    \cup {RawRule(w, PyList(<<c>>)) :
             w \in RawWhens,
             c \in {CountSkillA2, ForbidCptQbA_DstB, RawAnyOf(<<CountA3, CountB3>>),
                    CountBadSelector}}
    \cup {RawRule(PyNone, PyList(<<c1, c2>>)) :
             c1, c2 \in {CountA3, ForbidCptQbA_DstB, CountBadSelector}}
    \cup { RawRule(PyNone, PyList(<<>>)),
           RawRule(PyNone, PyNone),
           RawRule(PyNone, PyStr("count")),
           MkDict(<<>>),
           PyStr("enforce"),
           PyNone }

RawRuleMappings ==
         {<< <<"r1", cfg>> >> : cfg \in RawRuleConfigs}
    \cup {<< <<"r1", RawRule(PyNone, PyList(<<ForbidCptQbA_DstB>>))>>, <<"r2", cfg>> >> :
             cfg \in { RawRule(PyNone, PyList(<<RawAnyOf(<<CountA3, CountB3>>)>>)),
                       RawRule(PyNone, PyList(<<CountBadSelector>>)),
                       RawRule(PyNone, PyList(<<>>)) }}

InitRules ==
    /\ EnumIdle
    /\ DivIdle
    /\ raw_rules \in RawRuleMappings
    /\ lineup \in SUBSET DslPool
    /\ rpc = "parse"
    /\ parsed = None
    /\ violated = None

\* parse_rules_mapping(raw_rules)
ParseRules ==
    /\ rpc = "parse"
    /\ LET r == parse_rules_mapping(raw_rules, 1, <<>>)
       IN  /\ parsed' = Some(r)
           /\ rpc' = IF r.ok THEN "evaluate" ELSE "rejected"
    /\ UNCHANGED <<enumvars, divvars, raw_rules, lineup, violated>>

\* _violated_rules(lineup, rules)
ViolatedRules ==
    /\ rpc = "evaluate"
    /\ violated' = Some(violated_rules(lineup, Val(parsed).value))
    /\ rpc' = "done"
    /\ UNCHANGED <<enumvars, divvars, raw_rules, lineup, parsed>>

NextRules == ParseRules \/ ViolatedRules

SpecRules == InitRules /\ [][NextRules]_vars

(***************************************************************************)
(* Inputs of one call: the Parameters object and the max_lineups argument. *)
(* A call differs from the default Parameters() in at most two places.     *)
(***************************************************************************)
Call == [f \in DOMAIN Parameters \cup {"max_lineups"} |->
            IF f = "max_lineups" THEN None ELSE Parameters[f]]

Optional(S) == {None} \cup {Some(v) : v \in S}

CommonVariants(b) ==
       {[b EXCEPT !.lineup_count = v] : v \in -1..MaxLineups}
  \cup {[b EXCEPT !.max_lineups = v] : v \in Optional(0..MaxLineups)}
  \cup {[b EXCEPT !.min_salary = v] : v \in {-1, 0, 45000, 49000, 60000}}
  \cup {[b EXCEPT !.min_sum_projection = v] : v \in Optional({1000})}
  \cup {[b EXCEPT !.min_sum_ownership = v] : v \in Optional({9})}
  \cup {[b EXCEPT !.max_sum_ownership = v] : v \in Optional({5, 16})}
  \cup {[b EXCEPT !.min_product_ownership = v] : v \in Optional({8})}
  \cup {[b EXCEPT !.max_product_ownership = v] : v \in Optional({4, 200})}
  \cup {[b EXCEPT !.solver_threads = v] : v \in Optional({0, 1})}
  \cup {[b EXCEPT !.solver_time_limit_s = v] : v \in Optional({0, 1})}

ClassicVariants(b) ==
       CommonVariants(b)
  \cup {[b EXCEPT !.allow_qb_vs_dst = v] : v \in BOOLEAN}
  \cup {[b EXCEPT !.stack = v] : v \in -1..2}
  \cup {[b EXCEPT !.game_stack = v] : v \in {-1, 0, 7, 8}}
  \cup {[b EXCEPT !.excluded_players = v] : v \in {{}, {"TE2"}, {"QB1", "RB1"}}}
  \cup {[b EXCEPT !.included_players = v] : v \in {{}, {"RB3"}, {"ZZ"}}}
  \cup {[b EXCEPT !.excluded_teams = v] : v \in {{}, {"D"}}}
  \cup {[b EXCEPT !.min_players_by_team = v] :
           v \in {EmptyDict, Dict1("B", 4), Dict1("Z", 1), Dict1("A", -1)}}
  \cup {[b EXCEPT !.rb_dst_stack = v] : v \in BOOLEAN}
  \cup {[b EXCEPT !.min_player_projection = v] : v \in Optional({30})}

ShowdownVariants(b) ==
       CommonVariants(b)
  \cup {[b EXCEPT !.max_sum_projection = v] : v \in Optional({180})}
  \cup {[b EXCEPT !.min_weighted_ownership = v] : v \in Optional({3})}
  \cup {[b EXCEPT !.max_weighted_ownership = v] : v \in Optional({2})}
  \cup {[b EXCEPT !.excluded_players = v] : v \in {{}, {"S7"}}}
  \cup {[b EXCEPT !.included_players = v] : v \in {{}, {"S2"}, {"ZZ"}}}
  \cup {[b EXCEPT !.excluded_teams = v] : v \in {{}, {"B"}}}
  \cup {[b EXCEPT !.min_players_by_team = v] :
           v \in {EmptyDict, Dict1("B", 3), Dict1("Z", 1)}}

Calls(m) ==
    IF m = "classic"
    THEN UNION {ClassicVariants(b) : b \in ClassicVariants(Call)}
    ELSE UNION {ShowdownVariants(b) : b \in ShowdownVariants(Call)}

\* the rule set of tests/test_showdown_solver_rules.py on the teams of the
\* showdown pool: at least four entries of one of the two teams
MinFromOneTeam ==
    parse_rules_mapping(
        << <<"min_4_from_one_team",
             RawRule(PyNone, PyList(<<RawAnyOf(
                 << RawCount(MkDict(<< <<"team", PyStr("A")>> >>), PyInt(4), PyNone),
                    RawCount(MkDict(<< <<"team", PyStr("B")>> >>), PyInt(4), PyNone) >>)>>))>> >>,
        1, <<>>).value

Init ==
    /\ DivIdle
    /\ DslIdle
    /\ mode \in {"classic", "showdown"}
    /\ rules \in (IF mode = "showdown" THEN {None, Some(MinFromOneTeam)} ELSE {None})
    /\ \E c \in Calls(mode) :
          /\ params = [f \in DOMAIN Parameters |-> c[f]]
          /\ max_lineups = c.max_lineups
    /\ pc = "call"
    /\ target = 0
    /\ lineups = <<>>
    /\ previous_solutions = <<>>
    /\ cuts = <<>>
    /\ outcomes = <<>>
    /\ result = <<>>
    /\ rows = <<>>

(***************************************************************************)
(* Entry of the two enumerators, up to the first test of the while loop.   *)
(***************************************************************************)
\* max_lineups or params.lineup_count
TargetLineups(m, p) ==
    IF ~IsNone(m) /\ Val(m) # 0 THEN Val(m) ELSE p.lineup_count

\* assert idxs, "Included player not in pool"
IncludedInPool(m, p) ==
    \A n \in p.included_players : name_to_idxs(m, n) # {}

generate_lineups ==
    /\ pc = "call"
    /\ mode = "classic"
    /\ IF ~validate(params)
       THEN pc' = "error" /\ UNCHANGED target
       ELSE /\ target' = TargetLineups(max_lineups, params)
            /\ pc' = IF IncludedInPool("classic", params) THEN "loop" ELSE "error"
    /\ UNCHANGED <<divvars, dslvars, rules, mode, params, max_lineups, lineups, previous_solutions,
                   cuts, outcomes, result, rows>>

\* the signature is (entries, params, max_lineups=None): a call with
\* rules=... raises TypeError before the body runs
generate_lineups_showdown ==
    /\ pc = "call"
    /\ mode = "showdown"
    /\ IF ~IsNone(rules)
       THEN pc' = "error" /\ UNCHANGED target
       ELSE /\ target' = TargetLineups(max_lineups, params)
            /\ pc' = IF IncludedInPool("showdown", params) THEN "loop" ELSE "error"
    /\ UNCHANGED <<divvars, dslvars, rules, mode, params, max_lineups, lineups, previous_solutions,
                   cuts, outcomes, result, rows>>

(***************************************************************************)
(* Derived aggregates of a classic lineup (optimizer.py 106-132, 298-323). *)
(* max_game_key and all_game_stacks only feed the "Game Stack" text column *)
(* and are not kept.                                                       *)
(***************************************************************************)
SetMax(S) == CHOOSE v \in S : \A w \in S : w <= v

compute_stack_positions(S) ==
    LET qb_team == players[CHOOSE i \in S : players[i].position = "QB"].team
        stacked == {players[i].position :
                       i \in {j \in S : players[j].team = qb_team
                                        /\ players[j].position \in {"WR", "TE"}}}
        stack_count == Cardinality({j \in S : players[j].team = qb_team
                                        /\ players[j].position \in {"WR", "TE"}})
        nondst == {i \in S : players[i].position # "DST"}
        games == {game_key(players[i].team, players[i].opponent) : i \in nondst}
        game_counts == [g \in games |->
                          Cardinality({i \in nondst :
                              game_key(players[i].team, players[i].opponent) = g})]
        max_game == IF games # {} THEN SetMax({game_counts[g] : g \in games}) ELSE 0
        dsts == {i \in S : players[i].position = "DST"}
        rb_dst == IF dsts = {} THEN FALSE
                  ELSE LET dst_team == players[CHOOSE i \in dsts : \A j \in dsts : i <= j].team
                       IN  \E i \in S : players[i].position = "RB"
                                        /\ players[i].team = dst_team
    IN  [stack_positions |-> stacked, max_game_stack |-> max_game,
         stack_count |-> stack_count, rb_dst_stack |-> rb_dst]

\* the asserts on the extracted assignment (optimizer.py 288-299)
SanityChecks(S, p) ==
    /\ Cardinality(S) = ROSTER_SIZE
    /\ Count(S, pos_idxs("QB")) = 1
    /\ Count(S, pos_idxs("DST")) = 1
    /\ Count(S, pos_idxs("RB")) >= 2
    /\ Count(S, pos_idxs("WR")) >= 3
    /\ Count(S, pos_idxs("TE")) >= 1
    /\ p.min_salary <= TotalSalary("classic", S)
    /\ TotalSalary("classic", S) <= SALARY_CAP

WeightedSalaryOwnership(m) == [i \in index(m) |-> Pool(m)[i].salary * Pool(m)[i].ownership]

LineupResult(S) ==
    LET st == compute_stack_positions(S)
    IN  [players |-> S,
         total_projection |-> TotalProjection("classic", S),
         total_salary |-> TotalSalary("classic", S),
         sum_ownership |-> SumOwnership("classic", S),
         product_ownership |-> ProductOver(Ownership("classic"), S),
         weighted_ownership |-> SumOver(WeightedSalaryOwnership("classic"), S),
         stack_positions |-> st.stack_positions,
         max_game_stack |-> st.max_game_stack,
         stack_count |-> st.stack_count,
         rb_dst_stack |-> st.rb_dst_stack]

\* the asserts of showdown.py 208-212
SanityChecksShowdown(S, p) ==
    /\ Cardinality(S) = SHOWDOWN_ROSTER_SIZE
    /\ Count(S, cpt_idxs) = 1
    /\ p.min_salary <= TotalSalary("showdown", S)
    /\ TotalSalary("showdown", S) <= SALARY_CAP

ShowdownLineupResult(S) ==
    [entries |-> S,
     total_projection |-> TotalProjection("showdown", S),
     total_salary |-> TotalSalary("showdown", S),
     sum_ownership |-> SumOwnership("showdown", S),
     product_ownership |-> ProductOver(Ownership("showdown"), S),
     weighted_ownership |-> SumOver(WeightedSalaryOwnership("showdown"), S)]

(***************************************************************************)
(* One pass of the while loop: solve, break on a status other than         *)
(* LpStatusOptimal, else extract, check, append and cut.                   *)
(***************************************************************************)
\* mutant: the while test lets one more pass through
LoopGuard_OffByOne(n, t) == n <= t

LoopGuard(n, t) == n < t

\* mutant: only a proven optimum goes on
StatusOptimal_ProvenOnly(r) == status(r) = LpStatusOptimal /\ r.outcome = "optimal"

StatusOptimal(r) == status(r) = LpStatusOptimal

\* mutant: a failed solve discards what was collected
Break_DiscardsCollected ==
    /\ pc' = "done"
    /\ result' = <<>>
    /\ UNCHANGED <<lineups, previous_solutions, cuts>>

\* break, then return lineups
Break ==
    /\ pc' = "done"
    /\ result' = lineups
    /\ UNCHANGED <<lineups, previous_solutions, cuts>>

\* mutant: the no-good cut of the collected solution is not added
Collect_NoCut(S, ok, lu) ==
    IF ok
    THEN /\ lineups' = Append(lineups, lu)
         /\ previous_solutions' = Append(previous_solutions, S)
         /\ cuts' = cuts
         /\ pc' = "loop"
         /\ UNCHANGED result
    ELSE /\ pc' = "error"
         /\ UNCHANGED <<lineups, previous_solutions, cuts, result>>

Collect(S, ok, lu) ==
    IF ok
    THEN /\ lineups' = Append(lineups, lu)
         /\ previous_solutions' = Append(previous_solutions, S)
         /\ cuts' = Append(cuts, S)
         /\ pc' = "loop"
         /\ UNCHANGED result
    ELSE /\ pc' = "error"
         /\ UNCHANGED <<lineups, previous_solutions, cuts, result>>

Iterate ==
    /\ pc = "loop"
    /\ mode = "classic"
    /\ LoopGuard(Len(lineups), target)
    /\ \E r \in solve("classic", params, cuts) :
          /\ outcomes' = Append(outcomes, r)
          /\ IF ~StatusOptimal(r)
             THEN Break
             ELSE Collect(Val(r.x), SanityChecks(Val(r.x), params),
                          LineupResult(Val(r.x)))
    /\ UNCHANGED <<divvars, dslvars, rules, mode, params, max_lineups, target, rows>>

IterateShowdown ==
    /\ pc = "loop"
    /\ mode = "showdown"
    /\ LoopGuard(Len(lineups), target)
    /\ \E r \in solve("showdown", params, cuts) :
          /\ outcomes' = Append(outcomes, r)
          /\ IF ~StatusOptimal(r)
             THEN Break
             ELSE Collect(Val(r.x), SanityChecksShowdown(Val(r.x), params),
                          ShowdownLineupResult(Val(r.x)))
    /\ UNCHANGED <<divvars, dslvars, rules, mode, params, max_lineups, target, rows>>

\* the while test fails: return lineups
Return ==
    /\ pc = "loop"
    /\ ~LoopGuard(Len(lineups), target)
    /\ pc' = "done"
    /\ result' = lineups
    /\ UNCHANGED <<divvars, dslvars, rules, mode, params, max_lineups, target, lineups,
                   previous_solutions, cuts, outcomes, rows>>

(***************************************************************************)
(* lineups_to_dataframe / lineups_to_dataframe_showdown:                   *)
(* sorted(lineups, key=total_projection, reverse=True), ranked from 1.     *)
(* Python's sort is stable and reverse=True keeps the order of equal keys. *)
(***************************************************************************)
\* mutant: an element goes in front of the equal keys already placed
InsertByProjection_BeforeTies(sq, e) ==
    LET n == Cardinality({i \in 1..Len(sq) :
                             sq[i].total_projection > e.total_projection})
    IN  SubSeq(sq, 1, n) \o <<e>> \o SubSeq(sq, n + 1, Len(sq))

InsertByProjection(sq, e) ==
    LET n == Cardinality({i \in 1..Len(sq) :
                             sq[i].total_projection >= e.total_projection})
    IN  SubSeq(sq, 1, n) \o <<e>> \o SubSeq(sq, n + 1, Len(sq))

RECURSIVE sorted(_)
sorted(ls) ==
    IF ls = <<>> THEN <<>>
    ELSE InsertByProjection(sorted(SubSeq(ls, 1, Len(ls) - 1)), ls[Len(ls)])

lineups_to_dataframe ==
    /\ pc = "done"
    /\ rows' = [i \in 1..Len(result) |->
                   [Rank |-> i,
                    Projection |-> sorted(result)[i].total_projection,
                    Salary |-> sorted(result)[i].total_salary,
                    lineup |-> sorted(result)[i]]]
    /\ pc' = "reported"
    /\ UNCHANGED <<divvars, dslvars, rules, mode, params, max_lineups, target, lineups,
                   previous_solutions, cuts, outcomes, result>>

Next ==
    \/ generate_lineups
    \/ generate_lineups_showdown
    \/ Iterate
    \/ IterateShowdown
    \/ Return
    \/ lineups_to_dataframe

Spec == Init /\ [][Next]_vars

(***************************************************************************)
(* Progress of the one thread that runs an enumerator: it is not stopped   *)
(* between the call and the return, and every oracle call returns.         *)
(* LoopStep is a step of that thread seen through pc and outcomes alone:   *)
(* under Spec its steps are the steps of Next taken before the return, and *)
(* it is enabled exactly when one of them is (the first step of a call,    *)
(* an iteration, or the exit of the while test), so the condition below is *)
(* weak fairness of the call and its loop.                                 *)
(***************************************************************************)
LoopStep ==
    /\ pc \in {"call", "loop"}
    /\ pc' \in {"done", "error", "loop"}
    /\ \/ outcomes' = outcomes
       \/ Len(outcomes') = Len(outcomes) + 1

SpecFair == Spec /\ WF_<<pc, outcomes>>(LoopStep)

(***************************************************************************)
(* Properties.                                                             *)
(***************************************************************************)
Members(lu) == IF mode = "classic" THEN lu.players ELSE lu.entries

Returned == pc \in {"done", "reported"}

LastAnswer(os) == os[Len(os)]

Solved == Len(outcomes') = Len(outcomes) + 1

\* C1: within one run of either enumerator, whatever the oracle answers, no
\* two Selections collected or returned have the same set of pool positions.
C1_DistinctSelections ==
    /\ \A i, j \in 1..Len(lineups) :
          i # j => Members(lineups[i]) # Members(lineups[j])
    /\ \A i, j \in 1..Len(result) :
          i # j => Members(result[i]) # Members(result[j])

\* a run cut short by the time limit at least once that returned two or more
C1_Witness ==
    /\ pc = "done"
    /\ Len(result) >= 2
    /\ \E k \in 1..Len(outcomes) : outcomes[k].outcome = "timeLimitReached"

\* C2: every Selection of the classic enumerator has 9 entries, exactly one
\* QB and one DST, at least 2 RB, 3 WR and 1 TE, and a total salary within
\* [params.min_salary, 50000].
C2_RosterShapeAndSalary ==
    (mode = "classic") =>
        \A k \in 1..Len(lineups) :
            LET S == lineups[k].players
                n(pos) == Cardinality({i \in S : players[i].position = pos})
            IN  /\ Cardinality(S) = 9
                /\ n("QB") = 1 /\ n("DST") = 1
                /\ n("RB") >= 2 /\ n("WR") >= 3 /\ n("TE") >= 1
                /\ lineups[k].total_salary = SumOver(Salary("classic"), S)
                /\ params.min_salary <= lineups[k].total_salary
                /\ lineups[k].total_salary <= 50000

\* a returned classic lineup, in a pool where some roster breaks the cap
C2_Witness ==
    /\ mode = "classic"
    /\ pc = "done"
    /\ Len(result) >= 2
    /\ params.min_salary > 0
    /\ \E S \in ClassicRosters : TotalSalary("classic", S) > 50000

\* C3 as stated: generate_lineups returns at most m Selections for every
\* given integer m, and at most params.lineup_count when max_lineups is omitted.
C3_AtMostGivenMax ==
    (mode = "classic" /\ Returned) =>
        Len(result) <= (IF IsNone(max_lineups) THEN params.lineup_count
                        ELSE Val(max_lineups))

\* C3 amended: the target is m for a given m >= 1 and params.lineup_count when
\* max_lineups is omitted or 0; the classic enumerator never collects more
\* Selections than the target, never calls the oracle more often than the
\* target, and has made no call beyond the collected ones once the target is
\* reached.
C3_AtMostTarget ==
    (mode = "classic" /\ pc \in {"loop", "done", "reported"}) =>
        LET t == IF IsNone(max_lineups) \/ Val(max_lineups) = 0
                 THEN params.lineup_count ELSE Val(max_lineups)
        IN  /\ Len(lineups) <= t
            /\ Len(outcomes) <= t
            /\ (Len(lineups) = t => Len(outcomes) = t)
            /\ (Returned => Len(result) <= t)

\* max_lineups = m below lineup_count stops a run that could have gone on
C3_Witness ==
    /\ mode = "classic"
    /\ pc = "done"
    /\ ~IsNone(max_lineups)
    /\ Val(max_lineups) >= 1
    /\ Val(max_lineups) < params.lineup_count
    /\ Len(result) = Val(max_lineups)
    /\ Feasible(mode, params, cuts) # {}

\* C4: an infeasible answer, on the first solve or a later one, ends the run
\* without an error and returns exactly the Selections collected before it,
\* unchanged and in solve order.
C4_InfeasibleReturnsCollected ==
    [][(Solved /\ LastAnswer(outcomes').outcome = "infeasible") =>
          /\ pc' = "done"
          /\ lineups' = lineups
          /\ result' = lineups
          /\ Len(result') = Len(outcomes)]_vars

\* infeasible on a later solve, after at least one Selection was collected
C4_Witness ==
    /\ pc = "done"
    /\ Len(outcomes) >= 2
    /\ LastAnswer(outcomes).outcome = "infeasible"
    /\ Len(result) = Len(outcomes) - 1
    /\ Len(result) < target

MaxRosterProjection(m) == SetMax({TotalProjection(m, S) : S \in Rosters(m)})

\* C5: a min_sum_projection above the largest total projection of any
\* roster-feasible set makes either enumerator return zero Selections
\* without an error.
C5_UnreachableMinSumProjection ==
    (/\ validate(params)
     /\ IncludedInPool(mode, params)
     /\ ~IsNone(params.min_sum_projection)
     /\ Val(params.min_sum_projection) > MaxRosterProjection(mode)) =>
        (pc # "error" /\ lineups = <<>> /\ result = <<>>)

\* C6: an answer cut short by the time limit that carries a feasible
\* assignment is handled as a proven optimum is: the assignment is
\* extracted and appended, its no-good cut is added and the loop goes on.
C6_TimeLimitedFeasibleContinues ==
    [][(/\ Solved
        /\ LastAnswer(outcomes').outcome = "timeLimitReached"
        /\ ~IsNone(LastAnswer(outcomes').x)) =>
          LET S == Val(LastAnswer(outcomes').x)
          IN  /\ pc' = "loop"
              /\ Len(lineups') = Len(lineups) + 1
              /\ SubSeq(lineups', 1, Len(lineups)) = lineups
              /\ Members(lineups'[Len(lineups')]) = S
              /\ cuts' = Append(cuts, S)]_vars

\* a time-limited incumbent that is not an optimum was collected, and the
\* loop stands ready for the next solve
C6_Witness ==
    /\ pc = "loop"
    /\ outcomes # <<>>
    /\ LastAnswer(outcomes).outcome = "timeLimitReached"
    /\ Len(lineups) = Len(outcomes)
    /\ Len(lineups) < target
    /\ \E S \in Rosters(mode) :
          /\ Constraints(mode, S, params)
          /\ TotalProjection(mode, S) > lineups[Len(lineups)].total_projection

\* C7: an invalid configuration, or an include-required name absent from the
\* pool, makes both enumerators raise before the first oracle call.
C7_InvalidConfigFailsFast ==
    (pc # "call" /\ (~validate(params) \/ ~IncludedInPool(mode, params))) =>
        (pc = "error" /\ outcomes = <<>> /\ lineups = <<>>)

\* position in solve order of the Selection shown in row i
SolveIndex(i) == CHOOSE k \in 1..Len(result) : result[k] = rows[i].lineup

\* C8: lineups_to_dataframe emits every returned Selection once, in
\* non-increasing total projection, ranked 1..n in that order, and Selections
\* of equal total projection keep the order in which they were solved.
C8_RankedStableDescending ==
    (pc = "reported") =>
        /\ Len(rows) = Len(result)
        /\ \A k \in 1..Len(result) : \E i \in 1..Len(rows) : rows[i].lineup = result[k]
        /\ \A i \in 1..Len(rows) :
              /\ rows[i].Rank = i
              /\ rows[i].Projection = rows[i].lineup.total_projection
        /\ \A i, j \in 1..Len(rows) :
              (i < j) =>
                  /\ rows[i].Projection >= rows[j].Projection
                  /\ (rows[i].Projection = rows[j].Projection
                         => SolveIndex(i) < SolveIndex(j))

\* three rows: a tie of two, solved after a Selection of lower projection
C8_Witness ==
    /\ pc = "reported"
    /\ Len(rows) >= 3
    /\ \E i \in 1..(Len(rows) - 1) : rows[i].Projection = rows[i + 1].Projection
    /\ \E k \in 1..(Len(result) - 1) :
          result[k].total_projection < result[k + 1].total_projection

\* C9: with params.stack = k > 0 every classic Selection holds at least k
\* WR/TE entries of its QB's team, and reports a stack_count of at least k.
C9_StackWithQb ==
    (mode = "classic" /\ params.stack > 0) =>
        \A n \in 1..Len(lineups) :
            LET S == lineups[n].players
                qb == CHOOSE i \in S : players[i].position = "QB"
                mates == {i \in S : /\ players[i].position \in {"WR", "TE"}
                                    /\ players[i].team = players[qb].team}
            IN  /\ Cardinality(mates) >= params.stack
                /\ lineups[n].stack_count >= params.stack

\* stack = 2 returned a lineup although some roster within the salary window
\* has fewer than two stacked pass catchers
C9_Witness ==
    /\ mode = "classic"
    /\ params.stack = 2
    /\ pc = "done"
    /\ result # <<>>
    /\ \E S \in ClassicRosters :
          /\ SalaryConstraints("classic", S, params)
          /\ compute_stack_positions(S).stack_count < 2

AllProven(k) == \A j \in 1..k : outcomes[j].outcome = "optimal"

\* C10: a Selection taken from a proven optimum has the largest total
\* projection among the constraint-satisfying sets not returned before it;
\* when every answer is a proven optimum the total projection is
\* non-increasing along solve order.  The k-th Selection is examined in the
\* state that follows its collection, where it is the last of lineups.
\* (Every constraint-satisfying set satisfies the roster rows, so the sets
\* are drawn from Rosters.)
C10_KthBestOfTheRest ==
    /\ (pc = "loop" /\ lineups # <<>> /\ outcomes[Len(lineups)].outcome = "optimal") =>
          LET k == Len(lineups)
          IN  \A S \in Rosters(mode) :
                  (/\ Constraints(mode, S, params)
                   /\ \A j \in 1..(k - 1) : S # Members(lineups[j]))
                      => TotalProjection(mode, S) <= lineups[k].total_projection
    /\ \A k \in 2..Len(lineups) :
          AllProven(k) =>
              lineups[k - 1].total_projection >= lineups[k].total_projection

\* three proven optima in a row, the last strictly below the first
C10_Witness ==
    /\ pc = "done"
    /\ Len(result) >= 3
    /\ AllProven(Len(result))
    /\ result[1].total_projection > result[Len(result)].total_projection


(***************************************************************************)
(* Properties of the diversification selector.                             *)
(***************************************************************************)
Sources == {Catalogue[i].source_key : i \in 1..Len(Catalogue)}

Min2(a, b) == IF a <= b THEN a ELSE b

SelectedRecords == [k \in 1..Len(selected) |-> pool[selected[k]]]

\* C11: for every candidate list and every quota map with non-negative
\* quotas, farthest_first_with_quotas returns from each source s exactly
\* min(quota[s], number of candidates tagged s) records, at no point holds
\* more than quota[s] of them, and selects nothing from a source that is not
\* a key of the quota map.
C11_QuotaExactlyFilled ==
    (\A s \in DOMAIN quotas_by_source : quotas_by_source[s] >= 0) =>
        /\ dpc = "greedy" =>
              \A s \in Sources :
                  counts_by_source(SelectedRecords, s)
                      <= (IF s \in DOMAIN quotas_by_source THEN quotas_by_source[s] ELSE 0)
        /\ ~IsNone(selection) =>
              \A s \in Sources :
                  counts_by_source(Val(selection).selected, s)
                      = (IF s \in DOMAIN quotas_by_source
                         THEN Min2(quotas_by_source[s], counts_by_source(candidates, s))
                         ELSE 0)

\* a call returned with one source short of its quota, one source holding
\* more candidates than its quota, and a candidate of an unlisted source
C11_Witness ==
    /\ ~IsNone(selection)
    /\ \E s, t \in DOMAIN quotas_by_source :
          /\ counts_by_source(candidates, s) < quotas_by_source[s]
          /\ counts_by_source(candidates, s) > 0
          /\ counts_by_source(candidates, t) > quotas_by_source[t]
          /\ quotas_by_source[t] > 0
    /\ \E k \in 1..Len(candidates) :
          candidates[k].source_key \notin DOMAIN quotas_by_source

\* C12: for the token sets A and B of any two records of the pool,
\* jaccard_distance(A, B) is 1 - |A n B| / |A u B| when the union is not
\* empty and 0 when both are empty; it is symmetric, 0 when A = B, 1 when A
\* and B are disjoint and not both empty, and always within [0, 1].
C12_JaccardDistance ==
    dpc \in {"greedy", "returned", "written"} =>
        \A i, j \in 1..Len(pool) :
            LET A == pool[i].player_tokens
                B == pool[j].player_tokens
                d == jaccard_distance(A, B)
                U == Cardinality(A \cup B)
                I == Cardinality(A \cap B)
            IN  /\ d[2] > 0
                /\ U > 0 => d[1] * U = (U - I) * d[2]
                /\ (A = {} /\ B = {}) => d[1] = 0
                /\ RatEq(d, jaccard_distance(B, A))
                /\ A = B => d[1] = 0
                /\ (A \cap B = {} /\ U > 0) => d[1] = d[2]
                /\ 0 <= d[1] /\ d[1] <= d[2]

\* a pool with an empty token set, two overlapping unequal sets and two
\* disjoint sets
C12_Witness ==
    /\ dpc \in {"greedy", "returned", "written"}
    /\ \E i, j, k \in 1..Len(pool) :
          /\ pool[i].player_tokens = {}
          /\ pool[j].player_tokens # pool[k].player_tokens
          /\ pool[j].player_tokens \cap pool[k].player_tokens # {}
          /\ pool[j].player_tokens \cap pool[i].player_tokens = {}

ShortSources ==
    {key \in DOMAIN quotas_by_source :
        counts_by_source(candidates, key) < quotas_by_source[key]}

\* C13 as stated: with a source short of its quota, a run without
\* allow-shortfall fails before the selector is called, selecting and writing
\* nothing; a run with allow-shortfall goes on to the selector and the short
\* source contributes all of its candidates.
C13_ShortfallPolicy ==
    (~direct /\ dpc # "idle" /\ ShortSources # {}) =>
        IF ~allow_shortfall
        THEN /\ dpc \in {"main", "failed"}
             /\ pool = <<>> /\ selected = <<>>
             /\ IsNone(selection) /\ IsNone(written)
        ELSE /\ dpc = "failed" => ~IsNone(selection)
             /\ ~IsNone(selection) =>
                   \A key \in ShortSources :
                       counts_by_source(Val(selection).selected, key)
                           = counts_by_source(candidates, key)

\* C13 as amended: the second half is about runs that loaded at least one
\* candidate; with no candidate at all the run fails whatever the flag.
C13_ShortfallPolicyLoaded ==
    (~direct /\ dpc # "idle" /\ ShortSources # {}) =>
        IF ~allow_shortfall \/ candidates = <<>>
        THEN /\ dpc \in {"main", "failed"}
             /\ pool = <<>> /\ selected = <<>>
             /\ IsNone(selection) /\ IsNone(written)
        ELSE /\ dpc = "failed" => ~IsNone(selection)
             /\ ~IsNone(selection) =>
                   \A key \in ShortSources :
                       counts_by_source(Val(selection).selected, key)
                           = counts_by_source(candidates, key)

\* a run with allow-shortfall wrote a selection holding every candidate of
\* a short source, and its twin without the flag is covered by the failed
\* state of the other branch
C13_Witness ==
    /\ ~direct /\ allow_shortfall /\ dpc = "written"
    /\ \E key \in ShortSources :
          /\ counts_by_source(candidates, key) > 0
          /\ counts_by_source(Val(written), key) = counts_by_source(candidates, key)


(***************************************************************************)
(* Properties of the rule DSL.  The properties read the raw rule, not the  *)
(* parsed one: a selector's matches, a guard and a clause on its own are   *)
(* worked out here from the raw mapping.                                   *)
(***************************************************************************)
RawFieldMatches(rawsel, f, x) ==
    \/ f \notin DOMAIN V(rawsel)
    \/ K(V(rawsel)[f]) = "none"
    \/ upper(V(V(rawsel)[f])) = x

RawMatches(rawsel, e) ==
    /\ RawFieldMatches(rawsel, "slot", e.role)
    /\ RawFieldMatches(rawsel, "team", e.team)
    /\ RawFieldMatches(rawsel, "pos", e.position)
    /\ RawFieldMatches(rawsel, "type", e.position)
    /\ \/ "pos_in" \notin DOMAIN V(rawsel)
       \/ K(V(rawsel)["pos_in"]) = "none"
       \/ \E i \in 1..Len(V(V(rawsel)["pos_in"])) :
             upper(V(V(V(rawsel)["pos_in"])[i])) = e.position

RawCountHolds(rawcount, lu) ==
    LET n == Cardinality({e \in lu : RawMatches(V(rawcount)["selector"], e)})
        mn == Get(rawcount, "min")
        mx == Get(rawcount, "max")
    IN  /\ K(mn) = "none" \/ n >= V(mn)
        /\ K(mx) = "none" \/ n <= V(mx)

\* the rule with no guard whose only clause is c is violated for lu
ViolatedAlone(c, lu) ==
    rule_violated(parse_rule("alone", RawRule(PyNone, PyList(<<c>>))).value, lu)

TheRule == raw_rules[1][2]

NoGuard == K(Get(TheRule, "when")) = "none"

\* the guard of the raw rule, a well-formed {count: ...}, holds for lu
GuardHolds(lu) ==
    LET w == Get(TheRule, "when")
    IN  /\ K(w) = "dict"
        /\ "count" \in DOMAIN V(w)
        /\ K(V(w)["count"]) = "dict"
        /\ "selector" \in DOMAIN V(V(w)["count"])
        /\ K(V(V(w)["count"])["selector"]) = "dict"
        /\ RawCountHolds(V(w)["count"], lu)

Enforce == V(Get(TheRule, "enforce"))

Reported == "r1" \in Val(violated).names

OnlyClauseIs(key) ==
    /\ rpc = "done"
    /\ Len(raw_rules) = 1
    /\ NoGuard
    /\ Len(Enforce) = 1
    /\ DOMAIN V(Enforce[1]) = {key}

\* C14: a rule with no guard whose only enforce clause is Forbid(A, B) is
\* reported violated for a lineup iff the lineup has an entry matching A and
\* an entry matching B; taking every B-matching entry out of a violating
\* lineup makes the rule not violated.
C14_ForbidViolatedIffBothPresent ==
    OnlyClauseIs("forbid") =>
        LET f == V(Enforce[1])["forbid"]
            A == Unwrap(V(f)["left"])
            B == Unwrap(V(f)["right"])
        IN  /\ Reported <=> (/\ \E e \in lineup : RawMatches(A, e)
                             /\ \E e \in lineup : RawMatches(B, e))
            /\ Reported =>
                  ~rule_violated(Val(parsed).value[1],
                                 {e \in lineup : ~RawMatches(B, e)})

\* the forbid rule of the tests reported for a lineup with the CPT QB of
\* team A and the DST of team B
C14_Witness ==
    /\ OnlyClauseIs("forbid")
    /\ Enforce[1] = ForbidCptQbA_DstB
    /\ Reported
    /\ Cardinality(lineup) = 6

\* C15: a rule with no guard whose only enforce clause is AnyOf(options) is
\* reported violated for a lineup iff every option, taken as a clause of its
\* own, is violated for that lineup; the options may be AnyOf clauses.
C15_AnyOfViolatedIffAllOptionsFail ==
    OnlyClauseIs("any_of") =>
        LET opts == V(V(Enforce[1])["any_of"])
        IN  Reported <=> \A i \in 1..Len(opts) : ViolatedAlone(opts[i], lineup)

\* an AnyOf of two options, the first a nested AnyOf that fails, the second
\* a clause that holds: not reported
C15_Witness ==
    /\ OnlyClauseIs("any_of")
    /\ LET opts == V(V(Enforce[1])["any_of"])
       IN  /\ Len(opts) = 2
           /\ DOMAIN V(opts[1]) = {"any_of"}
           /\ ViolatedAlone(opts[1], lineup)
           /\ ~ViolatedAlone(opts[2], lineup)
    /\ ~Reported

\* C16: a rule is reported violated for a lineup iff its guard Count
\* condition holds, or it has no guard, and at least one of its enforce
\* clauses, taken on its own, is violated; when the guard does not hold the
\* rule is not reported whatever its enforce clauses.
C16_ViolatedIffGuardAndSomeClauseFails ==
    (rpc = "done" /\ Len(raw_rules) = 1) =>
        LET guard == NoGuard \/ GuardHolds(lineup)
        IN  /\ Reported <=> (/\ guard
                             /\ \E i \in 1..Len(Enforce) : ViolatedAlone(Enforce[i], lineup))
            /\ ~guard => ~Reported

\* a guarded rule whose guard does not hold while its clause fails
C16_Witness ==
    /\ rpc = "done" /\ Len(raw_rules) = 1
    /\ ~NoGuard
    /\ ~GuardHolds(lineup)
    /\ ViolatedAlone(Enforce[1], lineup)
    /\ ~Reported

MalformedSelector(rawsel) ==
    \/ K(rawsel) # "dict"
    \/ /\ "pos_in" \in DOMAIN V(rawsel)
       /\ K(V(rawsel)["pos_in"]) \notin {"none", "list"}

RECURSIVE MalformedClause(_)
MalformedClause(c) ==
    /\ K(c) = "dict"
    /\ \/ /\ "count" \in DOMAIN V(c)
          /\ K(V(c)["count"]) = "dict"
          /\ "selector" \in DOMAIN V(V(c)["count"])
          /\ MalformedSelector(V(V(c)["count"])["selector"])
       \/ /\ DOMAIN V(c) = {"forbid"}
          /\ K(V(c)["forbid"]) = "dict"
          /\ \E side \in {"left", "right"} :
                /\ side \in DOMAIN V(V(c)["forbid"])
                /\ MalformedSelector(Unwrap(V(V(c)["forbid"])[side]))
       \/ /\ DOMAIN V(c) = {"any_of"}
          /\ K(V(c)["any_of"]) = "list"
          /\ \E i \in 1..Len(V(V(c)["any_of"])) : MalformedClause(V(V(c)["any_of"])[i])

\* empty or missing enforce list, a selector that is not a mapping, a pos_in
\* that is not a list, at any depth
MalformedRule(cfg) ==
    /\ K(cfg) = "dict"
    /\ \/ K(Get(cfg, "enforce")) # "list"
       \/ V(Get(cfg, "enforce")) = <<>>
       \/ \E i \in 1..Len(V(Get(cfg, "enforce"))) :
             MalformedClause(V(Get(cfg, "enforce"))[i])
       \/ /\ K(Get(cfg, "when")) = "dict"
          /\ MalformedClause(Get(cfg, "when"))

\* the rule at which parse_rules_mapping stops
Offending ==
    CHOOSE k \in 1..Len(raw_rules) :
        /\ ~parse_rule(raw_rules[k][1], raw_rules[k][2]).ok
        /\ \A j \in 1..(k - 1) : parse_rule(raw_rules[j][1], raw_rules[j][2]).ok

\* C17: parse_rule and parse_rules_mapping reject every malformed rule at
\* parse time with an error whose message names the offending rule, at any
\* nesting depth, and no malformed rule yields a ConstraintRule object.
C17_MalformedRejectedByName ==
    /\ rpc \in {"evaluate", "done"} =>
          \A k \in 1..Len(raw_rules) : ~MalformedRule(raw_rules[k][2])
    /\ (rpc = "rejected" /\ MalformedRule(raw_rules[Offending][2])) =>
          raw_rules[Offending][1] \in Range(Val(parsed).error)


(***************************************************************************)
(* Properties of the enumerators, continued.                               *)
(***************************************************************************)
EntriesOf(S) == {entries[i] : i \in S}

RuleSatisfying(S) == ~violated_rules(EntriesOf(S), Val(rules)).violated

\* C18: called with a parsed rule set, generate_lineups_showdown returns at
\* least one Selection whenever a lineup is asked for and some feasible
\* lineup satisfies the rules, and no Selection it collects or returns
\* violates a rule.
C18_RulesRespected ==
    (mode = "showdown" /\ ~IsNone(rules)) =>
        /\ \A k \in 1..Len(lineups) : RuleSatisfying(lineups[k].entries)
        /\ (/\ pc \in {"error", "done", "reported"}
            /\ TargetLineups(max_lineups, params) >= 1
            /\ IncludedInPool("showdown", params)
            /\ IsNone(params.solver_time_limit_s)
            /\ \E S \in Feasible("showdown", params, <<>>) : RuleSatisfying(S))
           => (pc # "error" /\ Len(result) >= 1)

\* C19: solves are strictly sequential, one oracle call per step, and the
\* (k+1)-th call is made on a model that holds exactly the k no-good cuts
\* of the k solutions accepted before it, in order: each call waits for
\* the previous one's answer, solution and cut.  The answer is one of that
\* model: a solution meets the constraints and all k cuts, and infeasible
\* is answered only when no set meets them.
C19_SolveSeesAllEarlierCuts ==
    [][/\ Len(outcomes') \in {Len(outcomes), Len(outcomes) + 1}
       /\ Solved =>
             /\ Len(cuts) = Len(outcomes)
             /\ Len(lineups) = Len(outcomes)
             /\ \A j \in 1..Len(outcomes) :
                   /\ outcomes[j].outcome # "infeasible"
                   /\ cuts[j] = Val(outcomes[j].x)
                   /\ cuts[j] = Members(lineups[j])
             /\ LET r == LastAnswer(outcomes')
                IN  IF IsNone(r.x)
                    THEN (r.outcome = "infeasible") =>
                             Feasible(mode, params, cuts) = {}
                    ELSE /\ Constraints(mode, Val(r.x), params)
                         /\ \A j \in 1..Len(cuts) :
                               /\ NoGoodCut(Val(r.x), cuts[j])
                               /\ Val(r.x) # cuts[j]]_vars

\* the third solve has answered with a third solution, after two cuts
C19_Witness ==
    /\ pc = "loop"
    /\ Len(outcomes) = 3
    /\ Len(cuts) = 3
    /\ Cardinality({cuts[j] : j \in 1..3}) = 3

\* a roster with a quarterback and a defense that plays against his team
QbVsDst(S) ==
    \E i \in S, j \in S :
        /\ players[i].position = "QB"
        /\ players[j].position = "DST"
        /\ players[j].opponent = players[i].team

\* every classic constraint but the quarterback-against-defense rows
OtherClassicConstraints(S, p) ==
    /\ RosterConstraints(S)
    /\ SalaryConstraints("classic", S, p)
    /\ ExcludedPlayers("classic", S, p)
    /\ ExcludedTeams("classic", S, p)
    /\ IncludedPlayers(S, p)
    /\ StackConstraint(S, p)
    /\ GameStackConstraint(S, p)
    /\ MinPlayersByTeam("classic", S, p)
    /\ RbDstStackConstraint(S, p)

\* C20: with allow_qb_vs_dst false no classic Selection holds a QB of a
\* team T together with a DST whose opponent is T.  With allow_qb_vs_dst
\* true such rosters are not excluded: the enumeration does not end on an
\* infeasible answer while one that meets the other constraints is still
\* unreturned, and a proven optimum is at least as good as every such
\* roster not returned before it.
C20_QbVsDst ==
    mode = "classic" =>
        /\ (~params.allow_qb_vs_dst) =>
              \A k \in 1..Len(lineups) : ~QbVsDst(lineups[k].players)
        /\ (/\ params.allow_qb_vs_dst
            /\ outcomes # <<>>
            /\ LastAnswer(outcomes).outcome = "infeasible") =>
              ~\E S \in ClassicRosters :
                  /\ QbVsDst(S)
                  /\ OtherClassicConstraints(S, params)
                  /\ \A j \in 1..Len(lineups) : S # lineups[j].players
        /\ (/\ params.allow_qb_vs_dst
            /\ pc = "loop"
            /\ lineups # <<>>
            /\ outcomes[Len(lineups)].outcome = "optimal") =>
              LET k == Len(lineups)
              IN  \A S \in ClassicRosters :
                      (/\ QbVsDst(S)
                       /\ OtherClassicConstraints(S, params)
                       /\ \A j \in 1..(k - 1) : S # lineups[j].players)
                          => TotalProjection("classic", S) <= lineups[k].total_projection

\* the rows bind: a run without the permission has returned its best
\* lineup while a quarterback-against-defense roster that meets every
\* other constraint has a strictly larger projection
C20_Witness ==
    /\ mode = "classic"
    /\ ~params.allow_qb_vs_dst
    /\ pc = "done"
    /\ result # <<>>
    /\ outcomes[1].outcome = "optimal"
    /\ \E S \in ClassicRosters :
          /\ QbVsDst(S)
          /\ OtherClassicConstraints(S, params)
          /\ TotalProjection("classic", S) > result[1].total_projection

\* the pool holds a running back of team t
TeamHasRb(t) == \E i \in index("classic") : players[i].position = "RB" /\ players[i].team = t

\* C21: with rb_dst_stack true every classic Selection holds a running
\* back of the team of its selected defense and reports rb_dst_stack true,
\* and a defense whose team has no running back in the pool is in no
\* Selection.
C21_RbDstStack ==
    (mode = "classic" /\ params.rb_dst_stack) =>
        \A k \in 1..Len(lineups) :
            LET S == lineups[k].players
            IN  /\ lineups[k].rb_dst_stack
                /\ \A d \in S :
                      players[d].position = "DST" =>
                          /\ TeamHasRb(players[d].team)
                          /\ \E r \in S : /\ players[r].position = "RB"
                                           /\ players[r].team = players[d].team

\* the rows bind: a roster that meets every other constraint, with a
\* defense that has no running back of its team beside it, projects more
\* than the best lineup returned
C21_Witness ==
    /\ mode = "classic"
    /\ params.rb_dst_stack
    /\ pc = "done"
    /\ result # <<>>
    /\ outcomes[1].outcome = "optimal"
    /\ \E S \in ClassicRosters :
          /\ ClassicConstraints(S, [params EXCEPT !.rb_dst_stack = FALSE])
          /\ ~compute_stack_positions(S).rb_dst_stack
          /\ TotalProjection("classic", S) > result[1].total_projection

\* the entries of team t in the member set S of a lineup
OfTeam(S, t) == {i \in S : Pool(mode)[i].team = t}

\* C22: for every configured per-team minimum (t, m) every Selection of
\* either enumerator holds at least m entries of team t, also when t has no
\* entry in the pool (then m > 0 leaves no Selection).
C22_TeamMinimums ==
    \A t \in DOMAIN params.min_players_by_team :
        \A k \in 1..Len(lineups) :
            Cardinality(OfTeam(Members(lineups[k]), t)) >= params.min_players_by_team[t]

\* the non-DST entries of S that play in the game of teams a and b
InGame(S, a, b) ==
    {i \in S : /\ players[i].position # "DST"
               /\ {players[i].team, players[i].opponent} = {a, b}}

TeamPairs == {<<players[i].team, players[i].opponent>> : i \in index("classic")}

\* C23: with game_stack = k > 0 every classic Selection has a game from
\* which at least k of its non-DST entries come, and reports a
\* max_game_stack >= k; max_game_stack is always the largest per-game count
\* of non-DST entries of the Selection.
C23_GameStack ==
    (mode = "classic") =>
        \A n \in 1..Len(lineups) :
            LET S == lineups[n].players
            IN  /\ (params.game_stack > 0) =>
                      /\ \E pr \in TeamPairs :
                            Cardinality(InGame(S, pr[1], pr[2])) >= params.game_stack
                      /\ lineups[n].max_game_stack >= params.game_stack
                /\ \A pr \in TeamPairs :
                      Cardinality(InGame(S, pr[1], pr[2])) <= lineups[n].max_game_stack
                /\ \E pr \in TeamPairs :
                      Cardinality(InGame(S, pr[1], pr[2])) = lineups[n].max_game_stack

\* the requirement binds: the best lineup without it takes fewer entries
\* from every game than the game_stack asked for
C23_Witness ==
    /\ mode = "classic"
    /\ params.game_stack > 0
    /\ pc = "done"
    /\ result # <<>>
    /\ outcomes[1].outcome = "optimal"
    /\ \E S \in ClassicRosters :
          /\ ClassicConstraints(S, [params EXCEPT !.game_stack = 0])
          /\ \A pr \in TeamPairs :
                Cardinality(InGame(S, pr[1], pr[2])) < params.game_stack
          /\ TotalProjection("classic", S) > result[1].total_projection

\* the solves whose answer was taken as a solution, and those solutions
Successful == {j \in 1..Len(outcomes) : StatusOptimal(outcomes[j])}

SuccessfulSolves == Cardinality(Successful)

FeasibleSets == Cardinality(Feasible(mode, params, <<>>))

\* C26: the enumeration loop of both enumerators terminates when every
\* oracle call returns.  It makes at most min(target, number of feasible
\* member sets) successful solves (none for a target below 1): the
\* successful solves return pairwise different feasible member sets,
\* because the no-good cut of a returned set removes that set and no other
\* set of the roster size.
C26_LoopTerminates ==
    /\ <>(pc \notin {"call", "loop"})
    /\ [](/\ SuccessfulSolves <= (IF target < 0 THEN 0 ELSE target)
          /\ \A j \in Successful :
                /\ Val(outcomes[j].x) \in Rosters(mode)
                /\ Constraints(mode, Val(outcomes[j].x), params)
                /\ \A i \in Successful :
                      i # j => Val(outcomes[i].x) # Val(outcomes[j].x))
    /\ [][(Len(cuts') = Len(cuts) + 1) =>
             {S \in Rosters(mode) : ~NoGoodCut(S, cuts'[Len(cuts')])}
                 = {cuts'[Len(cuts')]}]_vars

\* the feasible sets run out before the target: every one of them was
\* returned once and the next solve was infeasible
C26_Witness ==
    /\ pc = "done"
    /\ Len(result) >= 2
    /\ Len(result) = FeasibleSets
    /\ Len(result) < target
    /\ LastAnswer(outcomes).outcome = "infeasible"

\* C27: every Selection of the showdown enumerator has 6 entries, exactly
\* one of the CPT role and five of another, a total salary within
\* [params.min_salary, 50000], and no two entries of one name and team.
C27_ShowdownShape ==
    (mode = "showdown") =>
        \A k \in 1..Len(lineups) :
            LET S == lineups[k].entries
            IN  /\ Cardinality(S) = 6
                /\ Cardinality({i \in S : entries[i].role = "CPT"}) = 1
                /\ Cardinality({i \in S : entries[i].role # "CPT"}) = 5
                /\ lineups[k].total_salary = SumOver(Salary("showdown"), S)
                /\ params.min_salary <= lineups[k].total_salary
                /\ lineups[k].total_salary <= 50000
                /\ \A i \in S, j \in S :
                      (i # j) => ~(/\ entries[i].name = entries[j].name
                                   /\ entries[i].team = entries[j].team)

\* the rows bind: a roster of the right shape and salary that holds both
\* variants of one player projects more than the best lineup returned
C27_Witness ==
    /\ mode = "showdown"
    /\ pc = "done"
    /\ result # <<>>
    /\ params.min_salary > 0
    /\ outcomes[1].outcome = "optimal"
    /\ \E S \in ShowdownRosters :
          /\ SalaryConstraints("showdown", S, params)
          /\ \E i \in S, j \in S : /\ i # j
                                     /\ entries[i].name = entries[j].name
                                     /\ entries[i].team = entries[j].team
          /\ TotalProjection("showdown", S) > result[1].total_projection

(***************************************************************************)
(* Properties of the diversification selector, continued.  The distance of *)
(* a candidate to the selected records and the order of the tie-break are  *)
(* worked out here from the records.                                       *)
(***************************************************************************)
Chosen(sel) == {sel[k] : k \in 1..Len(sel)}

\* the pool positions not chosen yet whose source has quota left
Eligible(sel, rem) ==
    {i \in 1..Len(pool) :
        /\ i \notin Chosen(sel)
        /\ pool[i].source_key \in DOMAIN rem
        /\ rem[pool[i].source_key] > 0}

\* d is the least Jaccard distance of position i to the positions of sel
IsMinDistanceTo(d, i, sel) ==
    /\ \E t \in Chosen(sel) :
          RatEq(d, jaccard_distance(pool[i].player_tokens, pool[t].player_tokens))
    /\ \A t \in Chosen(sel) :
          ~RatLt(jaccard_distance(pool[i].player_tokens, pool[t].player_tokens), d)

Distances ==
    {jaccard_distance(pool[i].player_tokens, pool[j].player_tokens) :
        i \in 1..Len(pool), j \in 1..Len(pool)}

MinDistanceTo(i, sel) == CHOOSE d \in Distances : IsMinDistanceTo(d, i, sel)

\* projection a is below projection b, a missing projection below all
ProjLt(a, b) == ~IsNone(b) /\ (IsNone(a) \/ Val(a) < Val(b))

\* C24: at a greedy iteration with a non-empty selected list the record
\* appended is, among the not-yet-chosen candidates whose source has quota
\* left, one of the largest minimum Jaccard distance to the selected
\* records; among those tied on the distance it has the highest projection,
\* and among those the lowest row_index.
C24_GreedyChoice ==
    [][(dpc = "greedy" /\ selected # <<>> /\ Len(selected') = Len(selected) + 1) =>
          LET b == selected'[Len(selected')]
              E == Eligible(selected, remaining_by_source)
              db == MinDistanceTo(b, selected)
          IN  /\ b \in E
              /\ \A i \in E :
                    LET di == MinDistanceTo(i, selected)
                    IN  /\ ~RatLt(db, di)
                        /\ RatEq(di, db) =>
                              /\ ~ProjLt(pool[b].projection, pool[i].projection)
                              /\ (pool[i].projection = pool[b].projection) =>
                                    pool[b].row_index <= pool[i].row_index]_vars

\* a greedy iteration after two selections has appended a record that was
\* tied on the distance with a later record of lower projection or with
\* an earlier record of the same projection and a higher row_index
C24_Witness ==
    /\ Len(selected) >= 2
    /\ LET n == Len(selected)
           b == selected[n]
           before == SubSeq(selected, 1, n - 1)
           E == Eligible(selected, remaining_by_source)
       IN  \E i \in E :
              /\ RatEq(MinDistanceTo(i, before), MinDistanceTo(b, before))
              /\ \/ i > b /\ ProjLt(pool[i].projection, pool[b].projection)
                 \/ /\ i < b
                    /\ pool[i].projection = pool[b].projection
                    /\ pool[i].row_index > pool[b].row_index

\* the summed Jaccard distance of position i to the other positions of the
\* pool; the average divides every sum by the same Len(pool) - 1
SumToRest(i) ==
    RatSumOver([j \in 1..Len(pool) |->
                   jaccard_distance(pool[i].player_tokens, pool[j].player_tokens)],
               (1..Len(pool)) \ {i})

\* position a is ahead of position b in the tie-break order
TieBreakAhead(a, b) ==
    \/ ProjLt(pool[b].projection, pool[a].projection)
    \/ /\ pool[a].projection = pool[b].projection
       /\ pool[a].row_index < pool[b].row_index

AllAveragesTie == \A i, j \in 1..Len(pool) : RatEq(SumToRest(i), SumToRest(j))

\* C25: the seed has the highest average Jaccard distance to the rest of
\* the pool; when all averages tie, or the pool has one member, it is the
\* candidate with the highest tie-break score (projection, then the lowest
\* row_index).  The second part is read on the calls that take their seed.
C25_SeedChoice ==
    (pool # <<>>) =>
        /\ best_idx \in 1..Len(pool)
        /\ \A i \in 1..Len(pool) : ~RatLt(SumToRest(best_idx), SumToRest(i))
        /\ (/\ AllAveragesTie \/ Len(pool) = 1
            /\ selected # <<>>
            /\ selected[1] = best_idx) =>
              \A i \in 1..Len(pool) : ~TieBreakAhead(i, best_idx)

\* selected holds no pool position twice and none of the remaining ones
NoRepeat ==
    /\ \A a, b \in 1..Len(selected) : (a # b) => selected[a] # selected[b]
    /\ \A a \in 1..Len(selected), b \in 1..Len(remaining_indices) :
          selected[a] # remaining_indices[b]
    /\ \A a, b \in 1..Len(remaining_indices) :
          (a # b) => remaining_indices[a] # remaining_indices[b]

\* C28 as stated: after the seed step and after every greedy iteration the
\* selected pool positions are pairwise distinct and disjoint from the
\* remaining positions, and the remaining quota of every source is >= 0.
C28_NoRepeatQuotaNonNegative ==
    (pool # <<>>) =>
        /\ NoRepeat
        /\ \A s \in DOMAIN remaining_by_source : remaining_by_source[s] >= 0

\* C28 as amended: the remaining quota is >= 0 for the sources whose quota
\* was; a negative quota is never counted down and stays as given.
C28_NoRepeatQuotaKept ==
    (pool # <<>>) =>
        /\ NoRepeat
        /\ DOMAIN remaining_by_source = DOMAIN quotas_by_source
        /\ \A s \in DOMAIN remaining_by_source :
              IF quotas_by_source[s] >= 0
              THEN remaining_by_source[s] >= 0
              ELSE remaining_by_source[s] = quotas_by_source[s]

\* two records were taken, a source that started with quota has none left
\* while one of its candidates remains, and another source has a negative
\* quota
C28_Witness ==
    /\ Len(selected) >= 2
    /\ \E s \in DOMAIN quotas_by_source :
          /\ quotas_by_source[s] > 0
          /\ remaining_by_source[s] = 0
          /\ \E b \in 1..Len(remaining_indices) :
                pool[remaining_indices[b]].source_key = s
    /\ \E s \in DOMAIN quotas_by_source : quotas_by_source[s] < 0

\* the positions the greedy loop adds to sel, as a function of its
\* arguments alone
RECURSIVE GreedyRun(_, _, _, _)
GreedyRun(pl, sel, rem, idxs) ==
    LET go == \E s \in DOMAIN rem : rem[s] > 0
        best == GreedyScan(pl, sel, rem, idxs, 1, NoBest)
    IN  IF go /\ best.i # 0
        THEN GreedyRun(pl, Append(sel, best.i),
                       [rem EXCEPT ![pl[best.i].source_key] = @ - 1],
                       SelectSeq(idxs, LAMBDA i : i # best.i))
        ELSE sel

\* the result of a call as a function of the candidate list and the quota
\* map, the seed argument left out
ResultOf(cs, q) ==
    LET pl == SelectSeq(cs, LAMBDA c : c.source_key \in DOMAIN q)
        b == SeedScan(pl, 1, 0, Frac(-1, 1))
        take == can_take_from(q, pl[b].source_key)
    IN  IF pl = <<>> THEN SelectionResult(<<>>, <<>>)
        ELSE SelectionResult(pl,
                 GreedyRun(pl,
                           IF take THEN <<b>> ELSE <<>>,
                           IF take THEN [q EXCEPT ![pl[b].source_key] = @ - 1] ELSE q,
                           SelectSeq([i \in 1..Len(pl) |-> i], LAMBDA i : i # b)))

C30_GreedyLoopTerminates ==
    /\ (dpc = "greedy") ~> (dpc = "returned")
    /\ [][(/\ dpc = "greedy"
           /\ vars' # vars
           /\ \A s \in DOMAIN quotas_by_source : quotas_by_source[s] >= 0) =>
             LET E == Eligible(selected, remaining_by_source)
                 done == \/ \A s \in DOMAIN remaining_by_source :
                               remaining_by_source[s] = 0
                         \/ E = {}
             IN  IF done
                 THEN /\ dpc' = "returned"
                      /\ selected' = selected
                      /\ remaining_by_source' = remaining_by_source
                 ELSE /\ dpc' = "greedy"
                      /\ Len(selected') = Len(selected) + 1
                      /\ SubSeq(selected', 1, Len(selected)) = selected
                      /\ selected'[Len(selected')] \in E
                      /\ LET s == pool[selected'[Len(selected')]].source_key
                         IN  /\ remaining_by_source[s] > 0
                             /\ remaining_by_source' =
                                    [remaining_by_source EXCEPT ![s] = @ - 1]]_vars

\* the loop has exited with quota left on a source that has no candidate
\* left, after at least two iterations
C30_Witness ==
    /\ dpc = "returned"
    /\ pool # <<>>
    /\ Len(selected) >= 3
    /\ \A s \in DOMAIN quotas_by_source : quotas_by_source[s] >= 0
    /\ \E s \in DOMAIN remaining_by_source : remaining_by_source[s] > 0
    /\ Eligible(selected, remaining_by_source) = {}

=============================================================================
